---- MODULE Spec2Model ----
(***************************************************************************)
(* Tender ingestion-and-matching pipeline:                                 *)
(*   src/agents/tender_scraper_agent.py   (TenderScraperAgent)             *)
(*   src/agents/company_scraper_agent.py  (CompanyScraperAgent)            *)
(*   src/graphs/main_graph.py             (one fresh agent pair per node)  *)
(*   src/utils/config.py                  (VECTOR_DIMENSION)               *)
(*                                                                         *)
(* Vectors.  A Python list of floats is modelled by the family of constant *)
(* vectors: [kind |-> "list", dim |-> n, val |-> c] is the list of n       *)
(* components all equal to c.  [kind |-> "null"] is Python None (a JSON    *)
(* null).  A float32 row held by the FAISS index is [dim |-> n, val |-> c].*)
(* The values c are small integers, which float32 represents exactly.      *)
(***************************************************************************)
EXTENDS Integers, Sequences, FiniteSets, TLC

VARIABLES
    VECTOR_DIMENSION,   \* config.py:16, read once from the environment
    tenders,            \* TenderScraperAgent.tenders
    index,              \* TenderScraperAgent.index
    tendersFile,        \* <VECTOR_DB_PATH>/tenders.pkl
    indexFile,          \* <VECTOR_DB_PATH>/faiss_index.bin
    result,             \* what the last scrape_and_store_tenders returned
    nextId,             \* number of elements scraped so far (names the next one)
    companyTenders,     \* CompanyScraperAgent.tenders
    companyIndex,       \* CompanyScraperAgent.index
    company_embedding,  \* company_info.embedding of the last profile processed
    neighbours,         \* (distances, indices) of the last index.search
    recommendations,    \* what the last _find_matching_tenders returned
    embedCall,          \* the last call of get_embedding taken on its own
    pc,                 \* concurrent writers: position of each scrape cycle
    agents,             \* concurrent writers: each agent's tenders and index
    batches,            \* concurrent writers: what each cycle has scraped
    loaded,             \* what the last _load_index_and_tenders of a cycle left
    profile_call,       \* the last call of process_company_profile
    scoreCall,          \* the last similarity score computed on its own
    clock,              \* time.time() in whole seconds
    sourceIdx,          \* scrape_all_sources: the source the loop is at
    all_tenders,        \* scrape_all_sources: all_tenders
    served,             \* what each source of the running scrape has served
    profile,            \* a profile text and what was last extracted from it
    scan,               \* a text and what a pattern extractor last found in it
    extraction,         \* an element and what was last extracted from it
    rpc,                \* concurrent reader: position of the CompanyScraperAgent
    rawFiles,           \* <VECTOR_DB_PATH>/raw_tenders/<id>.json
    loop                \* the loop of _process_and_store_tenders, step by step

vars == <<VECTOR_DIMENSION, tenders, index, tendersFile, indexFile, result,
          nextId, companyTenders, companyIndex, company_embedding,
          neighbours, recommendations, embedCall, pc, agents, batches,
          loaded, profile_call, scoreCall, clock, sourceIdx, all_tenders,
          served, profile, scan, extraction, rpc, rawFiles, loop>>

\* The state of a scrape_all_sources in progress.
scrapeVars == <<clock, sourceIdx, all_tenders, served>>

\* The texts the extractors are applied to on their own.
textVars == <<profile, scan, extraction>>

\* The position of a CompanyScraperAgent that loads beside a running cycle.
readerVars == <<rpc>>

\* The raw tender files and the cycle that writes them tender by tender.
loopVars == <<rawFiles, loop>>

\* The state of the agents, the files and the calls made on them.
pipelineVars ==
    <<loopVars, readerVars, scrapeVars, scoreCall, loaded, profile_call, VECTOR_DIMENSION, tenders,
      index, tendersFile, indexFile, result, nextId, companyTenders,
      companyIndex, company_embedding, neighbours, recommendations,
      embedCall, pc, agents, batches>>

(***************************************************************************)
(* Bounds and program constants                                            *)
(***************************************************************************)
DefaultDimension == 384     \* config.py:16, the default of VECTOR_DIMENSION
CompanyZeroLength == 384    \* company_scraper_agent.py:222,225,228
AltDimension == 768         \* the other length the inputs exercise
MaxVal == 1                 \* component values of a vector: 0..MaxVal
MaxBatch == 2               \* tenders scraped by one cycle: 0..MaxBatch
MaxTenders == 2             \* elements scraped over a whole run
top_k_default == 10         \* company_scraper_agent.py:230
DistanceScale == 10         \* company_scraper_agent.py:254
MaxDistance == 25           \* distances scored on their own: 0..MaxDistance
NumSources == 2             \* sources of TENDER_SOURCES a scrape visits
MaxElements == 2            \* elements a page holds: 0..MaxElements
MaxClock == 2               \* a scrape starts while the clock is at most this
ElementLimit == 20          \* firecrawl_wrapper.py:52
MinSleep == 1               \* firecrawl_wrapper.py:33
MaxSleep == 3               \* firecrawl_wrapper.py:33
MaxLines == 6
MaxShortLines == 1
MaxTokens == 3
ListLimit == 5          \* company_scraper_agent.py:206-208
DescriptionLimit == 500 \* company_scraper_agent.py:167,185
TitleLimit == 100       \* firecrawl_wrapper.py:156

Dimensions == {DefaultDimension, AltDimension}

(***************************************************************************)
(* Embeddings                                                              *)
(***************************************************************************)
None == [kind |-> "null", dim |-> 0, val |-> 0]

List(n, c) == [kind |-> "list", dim |-> n, val |-> c]

\* [0.0] * n
Zeros(n) == List(n, 0)

\* What the "embedding" field of a response body can hold.
EmbeddingValues == {None} \cup {List(n, c) : n \in Dimensions, c \in 0..MaxVal}

\* The answers of POST /api/embeddings.  "exception" is requests.post raising;
\* otherwise status is the HTTP status and body is one of: text that is not
\* JSON, a JSON array, a JSON object without "embedding", a JSON object with it.
Bodies ==
    {[json |-> "invalid", embedding |-> None],
     [json |-> "array", embedding |-> None],
     [json |-> "object_without_embedding", embedding |-> None]}
    \cup {[json |-> "object", embedding |-> e] : e \in EmbeddingValues}

Responses ==
    {[raised |-> TRUE, status_code |-> 0,
      body |-> [json |-> "invalid", embedding |-> None]]}
    \cup {[raised |-> FALSE, status_code |-> s, body |-> b] :
            s \in {200, 404, 500, 503}, b \in Bodies}

\* TenderScraperAgent.get_embedding: the value returned (it never raises: the
\* whole body is inside try/except Exception).
get_embedding(response, D) ==
    IF response.raised THEN Zeros(D)                            \* l.46-48
    ELSE IF response.status_code # 200 THEN Zeros(D)           \* l.39-42
    ELSE IF response.body.json = "invalid" THEN Zeros(D)       \* l.44 raises
    ELSE IF response.body.json = "array" THEN Zeros(D)         \* l.45 raises
    ELSE IF response.body.json = "object_without_embedding"
         THEN Zeros(D)                                          \* l.45 default
    ELSE response.body.embedding                                \* l.45

\* CompanyScraperAgent.get_embedding: the same, with the literal 384.
company_get_embedding(response) ==
    IF response.raised THEN Zeros(CompanyZeroLength)
    ELSE IF response.status_code # 200 THEN Zeros(CompanyZeroLength)
    ELSE IF response.body.json = "invalid" THEN Zeros(CompanyZeroLength)
    ELSE IF response.body.json = "array" THEN Zeros(CompanyZeroLength)
    ELSE IF response.body.json = "object_without_embedding"
         THEN Zeros(CompanyZeroLength)
    ELSE response.body.embedding

(***************************************************************************)
(* The FAISS index and the two persisted files                             *)
(***************************************************************************)
\* self.index = None
NoIndex == [present |-> FALSE, d |-> 0, vecs |-> <<>>]

\* faiss.IndexFlatL2(d): an empty index of dimension d
IndexFlatL2(d) == [present |-> TRUE, d |-> d, vecs |-> <<>>]

\* index.ntotal, an absent index counting as 0 vectors
ntotal(ix) == Len(ix.vecs)

\* A file is missing, readable ("ok", holding data) or unreadable ("corrupt").
MissingTendersFile == [state |-> "missing", data |-> <<>>]
MissingIndexFile == [state |-> "missing", data |-> NoIndex]

\* What one write of a file can do: succeed; fail before the file is opened
\* (the file is left as it was); fail after open(path, 'wb') has truncated it.
WriteOutcomes == {"ok", "refused", "partial"}

WriteFile(file, data, empty, outcome) ==
    CASE outcome = "ok" -> [state |-> "ok", data |-> data]
      [] outcome = "refused" -> file
      [] outcome = "partial" -> [state |-> "corrupt", data |-> empty]

IsPrefix(s, t) == Len(s) <= Len(t) /\ SubSeq(t, 1, Len(s)) = s

(***************************************************************************)
(* TenderScraperAgent                                                      *)
(***************************************************************************)
\* _load_index_and_tenders, l.116-124: a missing file leaves self.tenders as
\* it is, an unreadable one empties it.
load_tenders(mem, file) ==
    IF file.state = "missing" THEN mem
    ELSE IF file.state = "ok" THEN file.data
    ELSE <<>>

\* _load_index_and_tenders, l.126-133
load_index(mem, file) ==
    IF file.state = "missing" THEN mem
    ELSE IF file.state = "ok" THEN file.data
    ELSE NoIndex

\* np.array(new_embeddings).astype('float32'), l.140: the shape of the array,
\* or "raises".  Lists of one common length give a 2-D array; a batch of None
\* gives a 1-D array of nan or raises, depending on the numpy build (castRaises);
\* anything else is ragged and raises.
ArrayShape(embeddings, castRaises) ==
    IF \A i \in 1..Len(embeddings) : embeddings[i].kind = "list"
    THEN IF \A i \in 1..Len(embeddings) : embeddings[i].dim = embeddings[1].dim
         THEN [raises |-> FALSE, ndim |-> 2, d |-> embeddings[1].dim]
         ELSE [raises |-> TRUE, ndim |-> 0, d |-> 0]
    ELSE IF \A i \in 1..Len(embeddings) : embeddings[i].kind = "null"
         THEN [raises |-> castRaises, ndim |-> 1, d |-> 0]
         ELSE [raises |-> TRUE, ndim |-> 0, d |-> 0]

\* The float32 row of one embedding list.
Float32Row(e) == [dim |-> e.dim, val |-> e.val]

\* Mutant of AddAccepts: rows of any length are taken.
AddAccepts_AnyLength(ix, shape) == shape.ndim = 2

\* index.add(x), l.147: FAISS takes n, d = x.shape and asserts d == index.d.
AddAccepts(ix, shape) == shape.ndim = 2 /\ shape.d = ix.d

\* _update_index, l.135-148: the index afterwards and whether it raised.
update_index(ix, new_embeddings, D, castRaises) ==
    IF new_embeddings = <<>> THEN [raised |-> FALSE, index |-> ix]
    ELSE LET shape == ArrayShape(new_embeddings, castRaises)
             created == IF ix.present THEN ix ELSE IndexFlatL2(D)
         IN  IF shape.raises THEN [raised |-> TRUE, index |-> ix]
             ELSE IF ~AddAccepts(created, shape)
                  THEN [raised |-> TRUE, index |-> created]
             ELSE [raised |-> FALSE,
                   index |-> [created EXCEPT !.vecs = created.vecs \o
                       [i \in 1..Len(new_embeddings) |->
                           Float32Row(new_embeddings[i])]]]

\* _save_index_and_tenders, l.150-169: the index file is written first and
\* only when there is an index; each write failure is logged and swallowed.
save_index(ix, file, outcome) ==
    IF ix.present THEN WriteFile(file, ix, NoIndex, outcome) ELSE file

save_tenders(ts, file, outcome) == WriteFile(file, ts, <<>>, outcome)

\* The loop of _process_and_store_tenders, l.82-97: every tender gets the
\* embedding get_embedding returned for it and joins new_tenders.
attach_embeddings(scraped, responses, D) ==
    [i \in 1..Len(scraped) |->
        [scraped[i] EXCEPT !.embedding = get_embedding(responses[i], D)]]

\* A cycle that saves whether or not _update_index raised.
ReachesSave_Always(updateRaised) == TRUE

\* l.104-107: _save_index_and_tenders follows _update_index in the same
\* block, so an exception of _update_index leaves it out.
ReachesSave(updateRaised) == ~updateRaised

\* _process_and_store_tenders, l.74-109
process_and_store_tenders(mem, ix, tfile, ifile, scraped, responses, D, castRaises, indexWrite, tendersWrite) ==
    LET loadedT == load_tenders(mem, tfile)
        loadedI == load_index(ix, ifile)
        new_tenders == attach_embeddings(scraped, responses, D)
        embeddings == [i \in 1..Len(new_tenders) |-> new_tenders[i].embedding]
        upd == update_index(loadedI, embeddings, D, castRaises)
    IN  IF new_tenders = <<>>
        THEN [raised |-> FALSE, tenders |-> loadedT, index |-> loadedI,
              tendersFile |-> tfile, indexFile |-> ifile]
        ELSE IF ~ReachesSave(upd.raised)
        THEN [raised |-> TRUE, tenders |-> loadedT \o new_tenders,
              index |-> upd.index, tendersFile |-> tfile, indexFile |-> ifile]
        ELSE [raised |-> upd.raised, tenders |-> loadedT \o new_tenders,
              index |-> upd.index,
              tendersFile |-> save_tenders(loadedT \o new_tenders, tfile,
                                           tendersWrite),
              indexFile |-> save_index(upd.index, ifile, indexWrite)]

\* The embedding answers a scrape cycle is run with: one per outcome class.
TenderResponses ==
    {r \in Responses :
        \/ r.raised
        \/ /\ r.status_code = 200
           /\ r.body.json = "object"
           /\ r.body.embedding.kind = "list" => r.body.embedding.val = MaxVal}

(***************************************************************************)
(* CompanyScraperAgent                                                     *)
(***************************************************************************)
\* _load_index_and_tenders, l.40-51: a missing or unreadable file gives [].
company_load_tenders(file) == IF file.state = "ok" THEN file.data ELSE <<>>

\* _load_index_and_tenders, l.53-63
company_load_index(file) == IF file.state = "ok" THEN file.data ELSE NoIndex

\* Squared L2 distance, as IndexFlatL2 reports it, of two rows of one length.
Distance(q, v) == v.dim * (q.val - v.val) * (q.val - v.val)

Min2(a, b) == IF a <= b THEN a ELSE b

Max2(a, b) == IF a >= b THEN a ELSE b

\* index.search(query_vector, k), l.238-241, for a query the index accepts:
\* the k nearest rows as (distance, ordinal) pairs by ascending distance,
\* ordinals counted from 0.  FAISS fixes no order among equal distances.
SearchResults(ix, q, k) ==
    LET n == ntotal(ix)
        pair(o) == [distance |-> Distance(q, ix.vecs[o + 1]), ordinal |-> o]
    IN  {s \in [1..k -> {pair(o) : o \in 0..(n - 1)}] :
            /\ \A i, j \in 1..k : i < j =>
                   /\ s[i].ordinal # s[j].ordinal
                   /\ s[i].distance <= s[j].distance
            /\ \A o \in 0..(n - 1) :
                   (\A i \in 1..k : s[i].ordinal # o) =>
                       \A i \in 1..k : s[i].distance <= pair(o).distance}

\* Whether index.search raises: the query is not a 2-D array (the embedding
\* is None) or its length is not the index's dimension.
SearchRaises(ix, q) == q.kind # "list" \/ q.dim # ix.d

\* The score without its lower clamp.
similarity_score_NoFloor(distance) ==
    Min2(100, ((DistanceScale - distance) * 100) \div DistanceScale)

\* l.254
similarity_score(distance) ==
    Max2(0, Min2(100, ((DistanceScale - distance) * 100) \div DistanceScale))

\* l.249: idx < len(self.tenders)
ValidOrdinal(ts, idx) == idx < Len(ts)

\* Mutant of Recommendation: the tender is read at idx - 1, which Python wraps
\* to the last tender for idx = 0.
Recommendation_PreviousPosition(ts, nb) ==
    LET tender == ts[IF nb.ordinal = 0 THEN Len(ts) ELSE nb.ordinal]
    IN  [tender_id |-> tender.id,
         tender_title |-> tender.title,
         similarity_score |-> similarity_score(nb.distance),
         tender_details |-> tender]

\* l.250-261: the recommendation of one neighbour
Recommendation(ts, nb) ==
    LET tender == ts[nb.ordinal + 1]
    IN  [tender_id |-> tender.id,
         tender_title |-> tender.title,
         similarity_score |-> similarity_score(nb.distance),
         tender_details |-> tender]

\* l.244-262: the list built from the first n neighbours
RECURSIVE Built(_, _, _)
Built(ts, nbs, n) ==
    IF n = 0 THEN <<>>
    ELSE IF ValidOrdinal(ts, nbs[n].ordinal)
         THEN Append(Built(ts, nbs, n - 1), Recommendation(ts, nbs[n]))
         ELSE Built(ts, nbs, n - 1)

\* An insertion that puts r before the elements of equal score.
RECURSIVE InsertByScore_BeforeEqual(_, _)
InsertByScore_BeforeEqual(sorted, r) ==
    IF sorted = <<>> THEN <<r>>
    ELSE IF Head(sorted).similarity_score > r.similarity_score
         THEN <<Head(sorted)>> \o InsertByScore_BeforeEqual(Tail(sorted), r)
         ELSE <<r>> \o sorted

\* list.sort(key=similarity_score, reverse=True), l.265: stable, so r goes
\* after every element whose score is not smaller.
RECURSIVE InsertByScore(_, _)
InsertByScore(sorted, r) ==
    IF sorted = <<>> THEN <<r>>
    ELSE IF Head(sorted).similarity_score >= r.similarity_score
         THEN <<Head(sorted)>> \o InsertByScore(Tail(sorted), r)
         ELSE <<r>> \o sorted

RECURSIVE SortByScore(_, _)
SortByScore(recs, n) ==
    IF n = 0 THEN <<>> ELSE InsertByScore(SortByScore(recs, n - 1), recs[n])

\* Mutant of OnScoringError: the except branch returns what was collected.
OnScoringError_Partial(built) == built

\* l.269-271: what the except branch returns when scoring raised after
\* `built` had been collected.
OnScoringError(built) == <<>>

\* A guard that does not look at the store.
NothingToMatch_IndexOnly(ts, ix) == ~ix.present \/ ntotal(ix) = 0

\* l.232: nothing to match against
NothingToMatch(ts, ix) == ~ix.present \/ ts = <<>> \/ ntotal(ix) = 0

\* _find_matching_tenders, l.230-271, given what the search returned (nbs) and
\* the neighbour at which scoring raised (raisedAt, 0 for none).
find_matching_tenders(ts, nbs, raisedAt) ==
    IF raisedAt \in 1..Len(nbs)
    THEN OnScoringError(Built(ts, nbs, raisedAt - 1))
    ELSE LET built == Built(ts, nbs, Len(nbs))
         IN  SortByScore(built, Len(built))

\* The arguments of process_company_profile, l.65-68.  profile_text is a text
\* or falsy (None or ""); file_content is falsy, bytes that are UTF-8 text,
\* or bytes that are not; file_type is None, one of ALLOWED_EXTENSIONS
\* (config.py l.79) or another string.
ProfileInputs ==
    [profile_text : {"none", "text"},
     file_content : {"none", "utf8", "binary"},
     file_type : {"none", "pdf", "txt", "docx", "doc"}]

\* Whether PdfReader or extract_text raises is the library's answer to the
\* bytes it is given: either outcome, and only for a pdf file.
PdfChoices(input) ==
    IF input.file_content # "none" /\ input.file_type = "pdf"
    THEN BOOLEAN ELSE {FALSE}

\* _extract_company_info, l.95-176: the exception it raises ("none" when it
\* returns a CompanySchema).  Past l.118 nothing is raised: a failure of the
\* language model falls back to _basic_company_extraction (l.142-145,
\* l.173-176).
extract_company_info(input, pdfRaises) ==
    IF input.file_content # "none" /\ input.file_type # "none"    \* l.103
    THEN CASE input.file_type = "pdf" ->                          \* l.104-108
                  [raised |-> IF pdfRaises THEN "PdfReadError" ELSE "none"]
           [] input.file_type = "txt" ->                          \* l.109-111
                  [raised |-> IF input.file_content = "binary"
                              THEN "UnicodeDecodeError" ELSE "none"]
           [] input.file_type = "docx" ->                         \* l.112-114
                  [raised |-> "NotImplementedError"]
           [] OTHER -> [raised |-> "none"]              \* no branch: text = ""
    ELSE IF input.profile_text # "none" THEN [raised |-> "none"]  \* l.115-116
    ELSE [raised |-> "ValueError"]                                \* l.117-118

\* A handler that lets everything but ValueError through.
Catches_ValueErrorOnly(exc) == exc = "ValueError"

\* `except Exception` (company_scraper_agent.py l.87,
\* tender_scraper_agent.py l.66) catches every exception the body raises.
Catches(exc) == TRUE

\* BaseModel.model_dump(exclude=...), l.83-84: a set names fields of the model
\* itself; an entry that is no field name ("tender_details.embedding")
\* excludes nothing, and the nested model is dumped whole.
model_dump(obj, exclude) ==
    [f \in (DOMAIN obj) \ exclude |->
        IF f = "tender_details"
        THEN [g \in DOMAIN obj[f] |-> obj[f][g]]
        ELSE obj[f]]

\* The CompanySchema of l.165-171 / l.203-209 with its embedding (l.76).
CompanyInfo(q) ==
    [name |-> "company", description |-> "profile", embedding |-> q]

\* process_company_profile, l.65-93: what the call gives for the outcome of
\* the extraction, the embedding q and the recommendations recs.
process_company_profile(input, info, q, recs) ==
    IF info.raised # "none"
    THEN IF Catches(info.raised)
         THEN [input |-> input, escaped |-> FALSE,
               returned |-> [status |-> "error",                  \* l.89-93
                             message |-> "Error processing company profile: "
                                           \o info.raised,
                             recommendations |-> <<>>]]
         ELSE [input |-> input, escaped |-> TRUE,
               returned |-> [status |-> "none"]]
    ELSE [input |-> input, escaped |-> FALSE,
          returned |-> [status |-> "success",                     \* l.81-85
                        company_info |->
                            model_dump(CompanyInfo(q), {"embedding"}),
                        recommendations |->
                            [i \in 1..Len(recs) |->
                                model_dump(recs[i],
                                    {"tender_details.embedding"})]]]

(***************************************************************************)
(* Extraction of the company information from a profile text               *)
(*                                                                         *)
(* A text is a sequence of lines; <<>> is the empty string.  A line is     *)
(* known by the vocabulary words it contains (as substrings, in any case), *)
(* by whether it has upper-case letters, and by its length in characters.  *)
(* The lines carry no blanks at either end, so that str.strip() leaves     *)
(* them as they are.                                                       *)
(***************************************************************************)
\* The lines a profile is made of.
ProfileLines ==
    {[words |-> {}, upper |-> TRUE, len |-> 300],
     [words |-> {"service"}, upper |-> TRUE, len |-> 40],
     [words |-> {"capability"}, upper |-> FALSE, len |-> 30],
     [words |-> {"expertise"}, upper |-> FALSE, len |-> 30],
     [words |-> {"specialize"}, upper |-> FALSE, len |-> 250],
     [words |-> {"service", "capability"}, upper |-> FALSE, len |-> 60]}

\* The only line of "".split('\n')
EmptyLine == [words |-> {}, upper |-> FALSE, len |-> 0]

\* text.strip().split('\n'), l.181: never an empty list
SplitLines(text) == IF text = <<>> THEN <<EmptyLine>> ELSE text

\* len(text): the lines and the newlines between them
RECURSIVE TextLength(_, _)
TextLength(text, n) ==
    IF n = 0 THEN 0
    ELSE TextLength(text, n - 1) + text[n].len + (IF n > 1 THEN 1 ELSE 0)

\* text[:500], l.167 and l.185: the text and how many characters of it
Prefix(text, chars) ==
    [of |-> text, chars |-> Min2(chars, TextLength(text, Len(text)))]

\* line.lower(), l.194
Lower(line) == [line EXCEPT !.upper = FALSE]

\* keyword in line
Contains(line, keyword) == keyword \in line.words

\* l.188, restricted to the words that occur in ProfileLines
keywords == {"service", "provide", "offer", "solution", "product", "capability", "expertise"}

\* l.195: any(keyword in line for keyword in keywords)
HasKeyword(line) == \E keyword \in keywords : Contains(line, keyword)

\* The branch of l.196-201 a line takes: the first that applies.
BucketOf(line) ==
    IF ~HasKeyword(line) THEN "none"
    ELSE IF Contains(line, "service") \/ Contains(line, "provide")
               \/ Contains(line, "offer") THEN "services"
    ELSE IF Contains(line, "capability") THEN "capabilities"
    ELSE IF Contains(line, "expertise") \/ Contains(line, "specialize")
         THEN "expertise"
    ELSE "none"

\* The list a bucket has gathered after the first n lines, l.193-201.
RECURSIVE Bucket(_, _, _)
Bucket(lines, bucket, n) ==
    IF n = 0 THEN <<>>
    ELSE IF BucketOf(Lower(lines[n])) = bucket
         THEN Append(Bucket(lines, bucket, n - 1), Lower(lines[n]))
         ELSE Bucket(lines, bucket, n - 1)

\* A generic entry such as "General services", l.206-208
GenericEntry(label) == [label |-> label]

\* items[:5] if items else [default], l.206-208
FirstOrDefault(items, default) ==
    IF items = <<>> THEN <<GenericEntry(default)>>
    ELSE SubSeq(items, 1, Min2(ListLimit, Len(items)))

\* _basic_company_extraction, l.178-209
basic_company_extraction(text) ==
    LET lines == SplitLines(text)
    IN  [name |-> [kind |-> "line", line |-> lines[1]],
         description |-> Prefix(text, DescriptionLimit),
         services |-> FirstOrDefault(Bucket(lines, "services", Len(lines)),
                                     "General services"),
         capabilities |-> FirstOrDefault(
                              Bucket(lines, "capabilities", Len(lines)),
                              "General capabilities"),
         expertise |-> FirstOrDefault(Bucket(lines, "expertise", Len(lines)),
                                      "General expertise")]

\* What the model may put into a JSON object: a field is absent, null, a
\* string or a list of strings.
JsonFields == {"absent", "null", "text", "list"}

JsonObjects == [kind : {"object"}, name : JsonFields, services : JsonFields]

\* The JSON the language model wrote, if any: none, a JSON array, text in
\* braces that is no JSON, or an object.
Payloads ==
    {[kind |-> "none"], [kind |-> "array"], [kind |-> "broken"]}
        \cup JsonObjects

\* The "response" text of the language model: the payload, in a ```json
\* fence or not, after a sentence of prose or not.
ResponseTexts == [fenced : BOOLEAN, prose : BOOLEAN, payload : Payloads]

\* The outcome of requests.post(.../api/generate), l.137-148: the request
\* raises; or it answers with a status and a body that is no JSON, a JSON
\* list, or a JSON object whose "response" is absent, null or a text.
LlmReplies ==
    {[raised |-> TRUE, status_code |-> 0, json |-> "invalid"],
     [raised |-> FALSE, status_code |-> 500, json |-> "invalid"],
     [raised |-> FALSE, status_code |-> 200, json |-> "invalid"],
     [raised |-> FALSE, status_code |-> 200, json |-> "list"],
     [raised |-> FALSE, status_code |-> 200, json |-> "absent"],
     [raised |-> FALSE, status_code |-> 200, json |-> "null"]}
        \cup [raised : {FALSE}, status_code : {200}, json : {"object"},
              response : ResponseTexts]

\* l.152-159: the text handed to json.loads.  The fence pattern gives what
\* is inside the fence; otherwise the brace pattern gives the text from the
\* first { to the last }; otherwise the whole response stays.
LocatedJson(response) ==
    IF response.fenced THEN [payload |-> response.payload, prose |-> FALSE]
    ELSE IF response.payload.kind \in {"object", "broken"}
    THEN [payload |-> response.payload, prose |-> FALSE]
    ELSE [payload |-> response.payload, prose |-> response.prose]

\* json.loads, l.162: "raises" or the kind of value parsed
json_loads(located) ==
    IF located.prose \/ located.payload.kind \in {"none", "broken"}
    THEN "raises"
    ELSE located.payload.kind

\* A schema that takes any value for any field.
SchemaAccepts_Anything(name, services) == TRUE

\* CompanySchema(...), l.165-171: name must be a string, services a list of
\* strings (config.py l.59-65)
SchemaAccepts(name, services) == name = "text" /\ services = "list"

\* company_data.get(key, default): the default only for an absent key
Get(field, default) == IF field = "absent" THEN default ELSE field

\* _extract_company_info past l.118, l.136-176
extract_with_llm(text, reply) ==
    IF reply.raised THEN basic_company_extraction(text)          \* l.173-176
    ELSE IF reply.status_code # 200
    THEN basic_company_extraction(text)                          \* l.142-145
    ELSE IF reply.json # "object"
    THEN basic_company_extraction(text)      \* l.147-148, l.152, l.162 raise
    ELSE LET data == json_loads(LocatedJson(reply.response))
             payload == reply.response.payload
         IN  IF data # "object"
             THEN basic_company_extraction(text)          \* l.162, l.166 raise
             ELSE IF ~SchemaAccepts(Get(payload.name, "text"),
                                    Get(payload.services, "list"))
             THEN basic_company_extraction(text)                 \* l.165 raises
             ELSE [name |-> [kind |-> "llm",
                             line |-> Get(payload.name, "Unknown Company")],
                   description |-> Prefix(text, DescriptionLimit),
                   services |-> IF payload.services = "absent" THEN <<>>
                                ELSE <<"llm service">>,
                   capabilities |-> <<>>,
                   expertise |-> <<>>]

(***************************************************************************)
(* State machine                                                           *)
(***************************************************************************)
\* No matching yet.  called: _find_matching_tenders has run; queried: it went
\* past the guard of l.232 to the index query of l.236-241; searched: the
\* query returned neighbours.
NoSearch == [called |-> FALSE, queried |-> FALSE, searched |-> FALSE,
             pairs |-> <<>>, raisedAt |-> 0]

\* No _load_index_and_tenders has run in a cycle yet.
NothingLoaded == [tenders |-> <<>>, index |-> NoIndex]

\* No profile processed yet.
NoProfileCall == [input |-> "none", escaped |-> FALSE,
                  returned |-> [status |-> "none"]]

\* No text typed and nothing extracted yet.
NoReply == [raised |-> TRUE, status_code |-> 0, json |-> "invalid"]

NoProfile == [text |-> <<>>, op |-> "none", reply |-> NoReply,
              returned |-> [kind |-> "nothing"]]

\* No cycle is inside _process_and_store_tenders.
NoLoop == [active |-> FALSE, pos |-> 0, scraped |-> <<>>,
           new_tenders |-> <<>>, embeddings |-> <<>>, outcomes |-> <<>>]

\* No text scanned yet.
NoScan == [text |-> <<>>, op |-> "none", returned |-> None]

\* No element extracted yet.
NoExtraction == [op |-> "none"]

\* No score computed yet.
NoScore == [distance |-> 0, score |-> 100, previous |-> 0,
            previous_score |-> 100]

NoCall == [agent |-> "none", response |-> CHOOSE r \in Responses : r.raised,
           returned |-> None]

Writers == {1, 2}

Idle == [p \in Writers |-> "idle"]

FreshAgents == [p \in Writers |-> [tenders |-> <<>>, index |-> NoIndex]]

NoBatches == [p \in Writers |-> <<>>]

\* Everything but the configured dimension, after initialize_agents() on an
\* empty data directory (main_graph.py l.30-34).
Fresh ==
    /\ tenders = <<>>
    /\ index = NoIndex
    /\ tendersFile = MissingTendersFile
    /\ indexFile = MissingIndexFile
    /\ result = [status |-> "none", message |-> "", tender_count |-> 0]
    /\ nextId = 0
    /\ companyTenders = <<>>
    /\ companyIndex = NoIndex
    /\ company_embedding = None
    /\ neighbours = NoSearch
    /\ recommendations = <<>>
    /\ embedCall = NoCall
    /\ pc = Idle
    /\ agents = FreshAgents
    /\ batches = NoBatches
    /\ loaded = NothingLoaded
    /\ profile_call = NoProfileCall
    /\ scoreCall = NoScore
    /\ clock = 0
    /\ sourceIdx = 0
    /\ all_tenders = <<>>
    /\ served = <<>>
    /\ profile = NoProfile
    /\ scan = NoScan
    /\ rpc = "idle"
    /\ rawFiles = {}
    /\ loop = NoLoop
    /\ extraction = NoExtraction

\* VECTOR_DIMENSION unset in the environment (config.py l.16)
Init == VECTOR_DIMENSION = DefaultDimension /\ Fresh

\* The title of the n-th element scraped.
TitleOf(n) == IF n % 2 = 1 THEN "road works" ELSE "bridge repair"

\* What scrape_all_sources hands over: n tenders, no embedding yet
\* (TenderSchema.embedding defaults to None).
Scraped(first, n) ==
    [i \in 1..n |-> [id |-> first + i, title |-> TitleOf(first + i),
                     embedding |-> None]]

\* TenderScraperAgent.__init__, l.20-29
TenderScraperAgent_init ==
    /\ tenders' = <<>>
    /\ index' = NoIndex
    /\ UNCHANGED <<loopVars, readerVars, textVars, scrapeVars, scoreCall, loaded, profile_call,
                  VECTOR_DIMENSION, tendersFile, indexFile, result, nextId,
                   companyTenders, companyIndex, company_embedding,
                   neighbours, recommendations, embedCall, pc, agents, batches>>

\* The inputs a cycle depends on: how numpy casts a batch of None matters only
\* for such a batch, and a write outcome only when the save step is reached.
CastChoices(embeddings) ==
    IF embeddings # <<>> /\ \A i \in 1..Len(embeddings) : embeddings[i].kind = "null"
    THEN BOOLEAN ELSE {FALSE}

WriteChoices(saves) == IF saves THEN WriteOutcomes ELSE {"ok"}

\* What scrape_and_store_tenders returns, l.62-72: every exception of the
\* body (the AssertionError of index.add, the error of the float32 cast) is
\* caught at l.66.  Status "escaped" stands for a call that returned nothing
\* because the exception left it.
scrape_result(raised, n) ==
    IF raised /\ ~Catches("AssertionError")
    THEN [status |-> "escaped", message |-> "", tender_count |-> 0]
    ELSE IF raised
    THEN [status |-> "error", message |-> "Error scraping tenders",
          tender_count |-> 0]
    ELSE [status |-> "success",
          message |-> "Successfully scraped and stored tenders",
          tender_count |-> n]

\* One call of scrape_and_store_tenders, l.50-72, on an agent holding mem and
\* ix: the scrape, _process_and_store_tenders and the status returned.
ScrapeCycle(mem, ix) ==
    \E n \in 0..MaxBatch :
      /\ nextId + n <= MaxTenders
      /\ \E responses \in [1..n -> TenderResponses] :
           LET embeddings == [i \in 1..n |->
                   get_embedding(responses[i], VECTOR_DIMENSION)]
           IN
           \E castRaises \in CastChoices(embeddings) :
           LET saves == n > 0 /\ ~update_index(load_index(ix, indexFile),
                            embeddings, VECTOR_DIMENSION, castRaises).raised
           IN
           \E indexWrite \in WriteChoices(saves),
              tendersWrite \in WriteChoices(saves) :
           LET out == process_and_store_tenders(mem, ix, tendersFile,
                          indexFile, Scraped(nextId, n), responses,
                          VECTOR_DIMENSION, castRaises, indexWrite,
                          tendersWrite)
           IN  /\ tenders' = out.tenders
               /\ index' = out.index
               /\ tendersFile' = out.tendersFile
               /\ indexFile' = out.indexFile
               /\ result' = scrape_result(out.raised, n)
               /\ loaded' = [tenders |-> load_tenders(mem, tendersFile),
                              index |-> load_index(ix, indexFile)]
      /\ nextId' = nextId + n
      /\ UNCHANGED <<loopVars, readerVars, textVars, scrapeVars, scoreCall, VECTOR_DIMENSION, embedCall, pc, agents, batches>>

\* TenderScraperAgent.scrape_and_store_tenders on the agent at hand
scrape_and_store_tenders ==
    /\ ScrapeCycle(tenders, index)
    /\ UNCHANGED <<loopVars, readerVars, textVars, companyTenders, companyIndex, company_embedding,
                   neighbours, recommendations, profile_call>>

Next ==
    \/ TenderScraperAgent_init
    \/ scrape_and_store_tenders

Spec == Init /\ [][Next]_vars

(***************************************************************************)
(* The graph nodes of main_graph.py: each builds a fresh agent pair         *)
(***************************************************************************)
\* The embedding answers a profile is processed with.
CompanyResponses == TenderResponses

\* scrape_tenders, main_graph.py l.49-65: initialize_agents(), then one cycle
\* on the new TenderScraperAgent.  The new CompanyScraperAgent has loaded what
\* was on disk before the cycle.
scrape_tenders_node ==
    /\ ScrapeCycle(<<>>, NoIndex)
    /\ companyTenders' = company_load_tenders(tendersFile)
    /\ companyIndex' = company_load_index(indexFile)
    /\ company_embedding' = None
    /\ neighbours' = NoSearch
    /\ recommendations' = <<>>
    /\ profile_call' = NoProfileCall

\* get_embedding is reached (l.75) only when the extraction returned.
ResponseChoices(info) ==
    IF info.raised = "none" THEN CompanyResponses
    ELSE {CHOOSE r \in CompanyResponses : r.raised}

\* process_company_profile, main_graph.py l.67-88: initialize_agents(), then
\* CompanyScraperAgent.process_company_profile (l.65-93): the extraction of
\* the company information, the embedding, the matching and the mapping
\* returned.
ProfileNode(inputs) ==
    \E input \in inputs :
    \E pdfRaises \in PdfChoices(input) :
    \E response \in ResponseChoices(extract_company_info(input, pdfRaises)) :
      LET info == extract_company_info(input, pdfRaises)
          q == company_get_embedding(response)
          ts == company_load_tenders(tendersFile)
          ix == company_load_index(indexFile)
      IN  /\ tenders' = <<>>
          /\ index' = NoIndex
          /\ companyTenders' = ts
          /\ companyIndex' = ix
          /\ IF info.raised # "none"
             THEN /\ company_embedding' = None
                  /\ neighbours' = NoSearch
                  /\ recommendations' = <<>>
             ELSE /\ company_embedding' = q
                  /\ IF NothingToMatch(ts, ix)
                     THEN /\ neighbours' = [NoSearch EXCEPT !.called = TRUE]
                          /\ recommendations' = <<>>
                     ELSE IF SearchRaises(ix, q)
                     THEN /\ neighbours' = [NoSearch EXCEPT !.called = TRUE,
                                                           !.queried = TRUE]
                          /\ recommendations' = <<>>
                     ELSE \E nbs \in SearchResults(ix, q,
                                         Min2(top_k_default, ntotal(ix))) :
                          \E raisedAt \in 0..Len(nbs) :
                            /\ neighbours' =
                                 [called |-> TRUE, queried |-> TRUE,
                                  searched |-> TRUE, pairs |-> nbs,
                                  raisedAt |-> raisedAt]
                            /\ recommendations' =
                                 find_matching_tenders(ts, nbs, raisedAt)
          /\ profile_call' =
                 process_company_profile(input, info, q, recommendations')
          /\ UNCHANGED <<loopVars, readerVars, textVars, scrapeVars, scoreCall, loaded, VECTOR_DIMENSION,
                         tendersFile, indexFile, result, nextId, embedCall,
                         pc, agents, batches>>

\* The node for a profile typed in, for a request with neither text nor
\* file, and for an uploaded docx file.
GraphInputs ==
    {[profile_text |-> "text", file_content |-> "none", file_type |-> "none"],
     [profile_text |-> "none", file_content |-> "none", file_type |-> "none"],
     [profile_text |-> "none", file_content |-> "binary",
      file_type |-> "docx"]}

process_company_profile_node == ProfileNode(GraphInputs)

NextGraph ==
    \/ scrape_tenders_node
    \/ process_company_profile_node

SpecGraph == Init /\ [][NextGraph]_vars

(***************************************************************************)
(* The two pipeline operations under every kind of argument                *)
(***************************************************************************)
process_company_profile_call == ProfileNode(ProfileInputs)

NextBoundary ==
    \/ scrape_tenders_node
    \/ process_company_profile_call

SpecBoundary == Init /\ [][NextBoundary]_vars

(***************************************************************************)
(* get_embedding on its own, under either configured dimension             *)
(***************************************************************************)
InitEmbed == VECTOR_DIMENSION \in Dimensions /\ Fresh

tender_get_embedding ==
    /\ \E response \in Responses :
         embedCall' = [agent |-> "TenderScraperAgent", response |-> response,
                       returned |-> get_embedding(response, VECTOR_DIMENSION)]
    /\ UNCHANGED <<loopVars, readerVars, textVars, scrapeVars, scoreCall, loaded, profile_call,
                  VECTOR_DIMENSION, tenders, index, tendersFile, indexFile,
                   result, nextId, companyTenders, companyIndex,
                   company_embedding, neighbours, recommendations, pc,
                   agents, batches>>

company_agent_get_embedding ==
    /\ \E response \in Responses :
         embedCall' = [agent |-> "CompanyScraperAgent", response |-> response,
                       returned |-> company_get_embedding(response)]
    /\ UNCHANGED <<loopVars, readerVars, textVars, scrapeVars, scoreCall, loaded, profile_call,
                  VECTOR_DIMENSION, tenders, index, tendersFile, indexFile,
                   result, nextId, companyTenders, companyIndex,
                   company_embedding, neighbours, recommendations, pc,
                   agents, batches>>

NextEmbed ==
    \/ tender_get_embedding
    \/ company_agent_get_embedding

SpecEmbed == InitEmbed /\ [][NextEmbed]_vars

(***************************************************************************)
(* The similarity score on its own (company_scraper_agent.py l.252-254)    *)
(***************************************************************************)
compute_similarity_score ==
    /\ \E distance \in 0..MaxDistance :
         scoreCall' = [distance |-> distance,
                       score |-> similarity_score(distance),
                       previous |-> scoreCall.distance,
                       previous_score |-> scoreCall.score]
    /\ UNCHANGED <<loopVars, readerVars, textVars, scrapeVars, loaded, profile_call, VECTOR_DIMENSION,
                   tenders, index, tendersFile, indexFile, result, nextId,
                   companyTenders, companyIndex, company_embedding,
                   neighbours, recommendations, embedCall, pc, agents,
                   batches>>

NextScore == compute_similarity_score

SpecScore == Init /\ [][NextScore]_vars

(***************************************************************************)
(* Two scrape cycles at once, on two TenderScraperAgent instances over the *)
(* same two files (two graph invocations, main_graph.py l.49-65).  The     *)
(* code takes no lock; a step is one file read, one file write, or the     *)
(* in-memory part of _process_and_store_tenders.  Writes succeed here.     *)
(***************************************************************************)
\* Embedding answers that give a vector of the configured length.
GoodResponses ==
    {r \in TenderResponses :
        get_embedding(r, DefaultDimension).kind = "list"
        /\ get_embedding(r, DefaultDimension).dim = DefaultDimension}

\* scrape_and_store_tenders l.55: the scrape, with the embeddings the loop of
\* l.82-97 will attach.
writer_scrape(p) ==
    /\ pc[p] = "idle"
    /\ \E n \in 0..MaxBatch :
         /\ nextId + n <= MaxTenders
         /\ \E responses \in [1..n -> GoodResponses] :
              batches' = [batches EXCEPT ![p] =
                  attach_embeddings(Scraped(nextId, n), responses,
                                    VECTOR_DIMENSION)]
         /\ nextId' = nextId + n
    /\ pc' = [pc EXCEPT ![p] = "load_tenders"]
    /\ UNCHANGED <<loopVars, readerVars, textVars, scrapeVars, scoreCall, loaded, profile_call,
                  VECTOR_DIMENSION, tenders, index, tendersFile, indexFile,
                   result, companyTenders, companyIndex, company_embedding,
                   neighbours, recommendations, embedCall, agents>>

\* _load_index_and_tenders l.116-124
writer_load_tenders(p) ==
    /\ pc[p] = "load_tenders"
    /\ agents' = [agents EXCEPT ![p].tenders =
                      load_tenders(agents[p].tenders, tendersFile)]
    /\ pc' = [pc EXCEPT ![p] = "load_index"]
    /\ UNCHANGED <<loopVars, readerVars, textVars, scrapeVars, scoreCall, loaded, profile_call,
                  VECTOR_DIMENSION, tenders, index, tendersFile, indexFile,
                   result, nextId, companyTenders, companyIndex,
                   company_embedding, neighbours, recommendations, embedCall,
                   batches>>

\* _load_index_and_tenders l.126-133
writer_load_index(p) ==
    /\ pc[p] = "load_index"
    /\ agents' = [agents EXCEPT ![p].index =
                      load_index(agents[p].index, indexFile)]
    /\ pc' = [pc EXCEPT ![p] = "append"]
    /\ UNCHANGED <<loopVars, readerVars, textVars, scrapeVars, scoreCall, loaded, profile_call,
                  VECTOR_DIMENSION, tenders, index, tendersFile, indexFile,
                   result, nextId, companyTenders, companyIndex,
                   company_embedding, neighbours, recommendations, embedCall,
                   batches>>

\* _process_and_store_tenders l.79-104: the loop, extend and _update_index
writer_append(p) ==
    /\ pc[p] = "append"
    /\ LET embeddings == [i \in 1..Len(batches[p]) |-> batches[p][i].embedding]
           upd == update_index(agents[p].index, embeddings, VECTOR_DIMENSION,
                               FALSE)
       IN  IF batches[p] = <<>>
           THEN /\ agents' = agents
                /\ pc' = [pc EXCEPT ![p] = "done"]
           ELSE /\ agents' = [agents EXCEPT ![p] =
                       [tenders |-> agents[p].tenders \o batches[p],
                        index |-> upd.index]]
                /\ pc' = [pc EXCEPT ![p] =
                       IF upd.raised THEN "done" ELSE "save_index"]
    /\ UNCHANGED <<loopVars, readerVars, textVars, scrapeVars, scoreCall, loaded, profile_call,
                  VECTOR_DIMENSION, tenders, index, tendersFile, indexFile,
                   result, nextId, companyTenders, companyIndex,
                   company_embedding, neighbours, recommendations, embedCall,
                   batches>>

\* _save_index_and_tenders l.155-161
writer_save_index(p) ==
    /\ pc[p] = "save_index"
    /\ indexFile' = save_index(agents[p].index, indexFile, "ok")
    /\ pc' = [pc EXCEPT ![p] = "save_tenders"]
    /\ UNCHANGED <<loopVars, readerVars, textVars, scrapeVars, scoreCall, loaded, profile_call,
                  VECTOR_DIMENSION, tenders, index, tendersFile, result,
                   nextId, companyTenders, companyIndex, company_embedding,
                   neighbours, recommendations, embedCall, agents, batches>>

\* _save_index_and_tenders l.163-169
writer_save_tenders(p) ==
    /\ pc[p] = "save_tenders"
    /\ tendersFile' = save_tenders(agents[p].tenders, tendersFile, "ok")
    /\ pc' = [pc EXCEPT ![p] = "done"]
    /\ UNCHANGED <<loopVars, readerVars, textVars, scrapeVars, scoreCall, loaded, profile_call,
                  VECTOR_DIMENSION, tenders, index, indexFile, result,
                   nextId, companyTenders, companyIndex, company_embedding,
                   neighbours, recommendations, embedCall, agents, batches>>

NextWriters ==
    \E p \in Writers :
        \/ writer_scrape(p)
        \/ writer_load_tenders(p)
        \/ writer_load_index(p)
        \/ writer_append(p)
        \/ writer_save_index(p)
        \/ writer_save_tenders(p)

SpecWriters == Init /\ [][NextWriters]_vars

(***************************************************************************)
(* One scrape cycle at a time, and a CompanyScraperAgent built beside it   *)
(***************************************************************************)
\* The writer: the first of the two processes.
Writer == 1

\* scrape_and_store_tenders has returned; the next cycle runs on the same
\* agent or on a new one (main_graph.py l.30-34).
writer_returns ==
    /\ pc[Writer] = "done"
    /\ pc' = [pc EXCEPT ![Writer] = "idle"]
    /\ batches' = [batches EXCEPT ![Writer] = <<>>]
    /\ \E fresh \in BOOLEAN :
         agents' = IF fresh THEN [agents EXCEPT ![Writer] = FreshAgents[Writer]]
                   ELSE agents
    /\ UNCHANGED <<loopVars, readerVars, textVars, scrapeVars, scoreCall, loaded,
                   profile_call, VECTOR_DIMENSION, tenders, index, tendersFile,
                   indexFile, result, nextId, companyTenders, companyIndex,
                   company_embedding, neighbours, recommendations, embedCall>>

\* A reader that opens faiss_index.bin before tenders.pkl.
LoadOrder_IndexFirst == <<"index", "tenders">>

\* CompanyScraperAgent._load_index_and_tenders: tenders.pkl (l.40-51), then
\* faiss_index.bin (l.53-63)
LoadOrder == <<"tenders", "index">>

\* CompanyScraperAgent.__init__, l.27-33, up to the call of the load
reader_init ==
    /\ rpc \in {"idle", "loaded"}
    /\ rpc' = "load1"
    /\ companyTenders' = <<>>
    /\ companyIndex' = NoIndex
    /\ company_embedding' = None
    /\ neighbours' = NoSearch
    /\ recommendations' = <<>>
    /\ UNCHANGED <<loopVars, textVars, scrapeVars, scoreCall, loaded, profile_call,
                   VECTOR_DIMENSION, tenders, index, tendersFile, indexFile,
                   result, nextId, embedCall, pc, agents, batches>>

\* The k-th of the two reads of _load_index_and_tenders
ReaderLoad(k) ==
    /\ rpc = (IF k = 1 THEN "load1" ELSE "load2")
    /\ rpc' = (IF k = 1 THEN "load2" ELSE "loaded")
    /\ IF LoadOrder[k] = "tenders"
       THEN /\ companyTenders' = company_load_tenders(tendersFile)
            /\ UNCHANGED companyIndex
       ELSE /\ companyIndex' = company_load_index(indexFile)
            /\ UNCHANGED companyTenders
    /\ UNCHANGED <<loopVars, textVars, scrapeVars, scoreCall, loaded, profile_call,
                   VECTOR_DIMENSION, tenders, index, tendersFile, indexFile,
                   result, nextId, company_embedding, neighbours,
                   recommendations, embedCall, pc, agents, batches>>

reader_load_first == ReaderLoad(1)

reader_load_second == ReaderLoad(2)

\* _find_matching_tenders, l.230-271, on what the agent has loaded
reader_match ==
    /\ rpc = "loaded"
    /\ \E response \in CompanyResponses :
         LET q == company_get_embedding(response)
         IN  /\ company_embedding' = q
             /\ IF NothingToMatch(companyTenders, companyIndex)
                THEN /\ neighbours' = [NoSearch EXCEPT !.called = TRUE]
                     /\ recommendations' = <<>>
                ELSE IF SearchRaises(companyIndex, q)
                THEN /\ neighbours' = [NoSearch EXCEPT !.called = TRUE,
                                                      !.queried = TRUE]
                     /\ recommendations' = <<>>
                ELSE \E nbs \in SearchResults(companyIndex, q,
                                Min2(top_k_default, ntotal(companyIndex))) :
                     \E raisedAt \in 0..Len(nbs) :
                       /\ neighbours' =
                            [called |-> TRUE, queried |-> TRUE,
                             searched |-> TRUE, pairs |-> nbs,
                             raisedAt |-> raisedAt]
                       /\ recommendations' =
                            find_matching_tenders(companyTenders, nbs,
                                                  raisedAt)
    /\ UNCHANGED <<loopVars, readerVars, textVars, scrapeVars, scoreCall, loaded,
                   profile_call, VECTOR_DIMENSION, tenders, index, tendersFile,
                   indexFile, result, nextId, companyTenders, companyIndex,
                   embedCall, pc, agents, batches>>

NextReader ==
    \/ writer_scrape(Writer)
    \/ writer_load_tenders(Writer)
    \/ writer_load_index(Writer)
    \/ writer_append(Writer)
    \/ writer_save_index(Writer)
    \/ writer_save_tenders(Writer)
    \/ writer_returns
    \/ reader_init
    \/ reader_load_first
    \/ reader_load_second
    \/ reader_match

SpecReader == Init /\ [][NextReader]_vars

(***************************************************************************)
(* The pattern extractors of FirecrawlWrapper                              *)
(*                                                                         *)
(* A text is a sequence of tokens separated by single blanks.  A token is  *)
(* known by its characters s, its length, the numeric literal it starts    *)
(* with (lead) and ends with (trail), whether it starts with "lakh",       *)
(* "crore" or "cr" (unitPrefix), and whether it contains "lakh" (hasLakh)  *)
(* or "cr" (hasCr), all regardless of case.  A literal is its value in     *)
(* tenths, with the thousands separators already removed.                  *)
(***************************************************************************)
NoLiteral == [present |-> FALSE, tenths |-> 0]

Literal(tenths) == [present |-> TRUE, tenths |-> tenths]

Word(s, len, unitPrefix, hasLakh, hasCr) == [kind |-> "word", s |-> s, len |-> len, lead |-> NoLiteral, trail |-> NoLiteral, unitPrefix |-> unitPrefix, hasLakh |-> hasLakh, hasCr |-> hasCr]

Marker(s, len) == [kind |-> "marker", s |-> s, len |-> len, lead |-> NoLiteral, trail |-> NoLiteral, unitPrefix |-> FALSE, hasLakh |-> FALSE, hasCr |-> FALSE]

Number(s, len, tenths) == [kind |-> "number", s |-> s, len |-> len, lead |-> Literal(tenths), trail |-> Literal(tenths), unitPrefix |-> FALSE, hasLakh |-> FALSE, hasCr |-> FALSE]

DateToken(kind, s, len, day, year) == [kind |-> kind, s |-> s, len |-> len, lead |-> Literal(day), trail |-> Literal(year), unitPrefix |-> FALSE, hasLakh |-> FALSE, hasCr |-> FALSE]

Rs == Marker("Rs.", 3)
RupeeSign == Marker("(rupee sign)", 1)
INR == Marker("INR", 3)
OneMillion == Number("1,000,000", 9, 10000000)
TenAndAHalf == Number("10.5", 4, 105)
Five == Number("5", 1, 50)
Lakhs == Word("Lakhs", 5, TRUE, TRUE, FALSE)
Cr == Word("Cr", 2, TRUE, FALSE, TRUE)
SubmitBy == Word("Submit by", 9, FALSE, FALSE, FALSE)
DeadlineColon == Word("Deadline:", 9, FALSE, FALSE, FALSE)
Concrete == Word("concrete", 8, FALSE, FALSE, TRUE)
Lakhimpur == Word("Lakhimpur", 9, TRUE, TRUE, FALSE)
NumericDate == DateToken("numeric_date", "15/08/2024", 10, 150, 20240)
ImpossibleDate == DateToken("numeric_date", "31/02/2024", 10, 310, 20240)
MonthDate == DateToken("month_date", "5 Jan 2025", 10, 50, 20250)

Tokens ==
    {Rs, RupeeSign, INR, OneMillion, TenAndAHalf, Five, Lakhs, Cr, SubmitBy,
     DeadlineColon, Concrete, Lakhimpur, NumericDate, ImpossibleDate,
     MonthDate}

\* A Python float that is a decimal number: digits * 10^exp, digits not
\* ending in 0.
RECURSIVE Float(_, _)
Float(digits, exp) ==
    IF digits # 0 /\ digits % 10 = 0 THEN Float(digits \div 10, exp + 1)
    ELSE [kind |-> "float", digits |-> digits, exp |-> exp]

\* The least position in 1..n that satisfies Match, or 0: where re.search
\* finds its leftmost match.
Leftmost(n, Match(_)) ==
    IF \E i \in 1..n : Match(i)
    THEN CHOOSE i \in 1..n : Match(i) /\ \A j \in 1..(i - 1) : ~Match(j)
    ELSE 0

\* l.180: (?:Rs\.?|(rupee sign)|INR)\s*([\d,]+(?:\.\d+)?(?:\s*(?:lakhs?|
\* crores?|cr))?) matches at a currency marker followed by a literal; the
\* group takes in the magnitude word when one follows the literal.
MarkerPattern(text, i) ==
    /\ text[i].kind = "marker"
    /\ i + 1 <= Len(text)
    /\ text[i + 1].lead.present

MarkerGroupHasUnit(text, i) ==
    /\ text[i + 1].kind = "number"
    /\ i + 2 <= Len(text)
    /\ text[i + 2].unitPrefix

\* l.181: ([\d,]+(?:\.\d+)?)\s*(?:lakhs?|crores?|cr) matches at a literal
\* followed by a magnitude word.
UnitPattern(text, i) ==
    /\ text[i].trail.present
    /\ i + 1 <= Len(text)
    /\ text[i + 1].unitPrefix

\* A multiplier taken from the word that follows the literal matched.
Multiplier_OfTheMatch(text, i) ==
    IF i + 1 <= Len(text) /\ text[i + 1].hasLakh THEN 5
    ELSE IF i + 1 <= Len(text) /\ text[i + 1].hasCr THEN 7
    ELSE 0

\* l.189-194: the power of ten the literal is multiplied by, decided by the
\* whole text ('crore' contains 'cr').
Multiplier(text, i) ==
    IF \E k \in 1..Len(text) : text[k].hasLakh THEN 5
    ELSE IF \E k \in 1..Len(text) : text[k].hasCr THEN 7
    ELSE 0

\* _extract_amount, l.175-198.  float() of a group that took in the
\* magnitude word raises ValueError (l.195), and the next pattern is tried.
extract_amount(text) ==
    LET m1 == Leftmost(Len(text), LAMBDA i : MarkerPattern(text, i))
        m2 == Leftmost(Len(text), LAMBDA i : UnitPattern(text, i))
    IN  IF m1 # 0 /\ ~MarkerGroupHasUnit(text, m1)
        THEN Float(text[m1 + 1].lead.tenths, Multiplier(text, m1 + 1) - 1)
        ELSE IF m2 # 0
        THEN Float(text[m2].trail.tenths, Multiplier(text, m2) - 1)
        ELSE None

\* The patterns in the opposite order.
date_patterns_MonthFirst == <<"month_date", "numeric_date">>

\* l.203-206
date_patterns == <<"numeric_date", "month_date">>

\* _extract_date, l.200-211: for each pattern in turn, the leftmost match in
\* the whole text, returned as it stands.
extract_date(text) ==
    LET At(k) == Leftmost(Len(text), LAMBDA i : text[i].kind = date_patterns[k])
    IN  IF At(1) # 0 THEN [kind |-> "str", s |-> text[At(1)].s]
        ELSE IF At(2) # 0 THEN [kind |-> "str", s |-> text[At(2)].s]
        ELSE None

(***************************************************************************)
(* The extractors of CompanyScraperAgent applied to a text on their own    *)
(***************************************************************************)
\* The text grows by one line, up to most lines.
TypeLine(most) ==
    /\ Len(profile.text) < most
    /\ \E line \in ProfileLines :
         profile' = [NoProfile EXCEPT !.text = Append(profile.text, line)]
    /\ UNCHANGED <<pipelineVars, scan, extraction>>

type_line == TypeLine(MaxLines)

\* _basic_company_extraction(text), company_scraper_agent.py l.178-209
basic_company_extraction_call ==
    /\ profile' = [profile EXCEPT !.op = "basic", !.reply = NoReply,
                       !.returned = basic_company_extraction(profile.text)]
    /\ UNCHANGED <<pipelineVars, scan, extraction>>

NextHeuristic ==
    \/ type_line
    \/ basic_company_extraction_call

SpecHeuristic == Init /\ [][NextHeuristic]_vars

type_short_line == TypeLine(MaxShortLines)

\* _extract_company_info(profile_text=text), l.95-176, under every answer of
\* the language model
extract_company_info_call ==
    /\ \E reply \in LlmReplies :
         profile' = [profile EXCEPT !.op = "llm", !.reply = reply,
                         !.returned = extract_with_llm(profile.text, reply)]
    /\ UNCHANGED <<pipelineVars, scan, extraction>>

NextExtract ==
    \/ type_short_line
    \/ extract_company_info_call

SpecExtract == Init /\ [][NextExtract]_vars

(***************************************************************************)
(* _extract_amount and _extract_date applied to a text on their own        *)
(***************************************************************************)
\* The text grows by one token.
type_token ==
    /\ Len(scan.text) < MaxTokens
    /\ \E token \in Tokens :
         scan' = [NoScan EXCEPT !.text = Append(scan.text, token)]
    /\ UNCHANGED <<pipelineVars, profile, extraction>>

\* _extract_amount(text), firecrawl_wrapper.py l.175-198
extract_amount_call ==
    /\ scan' = [scan EXCEPT !.op = "amount",
                            !.returned = extract_amount(scan.text)]
    /\ UNCHANGED <<pipelineVars, profile, extraction>>

\* _extract_date(text), firecrawl_wrapper.py l.200-211
extract_date_call ==
    /\ scan' = [scan EXCEPT !.op = "date",
                            !.returned = extract_date(scan.text)]
    /\ UNCHANGED <<pipelineVars, profile, extraction>>

NextPatterns ==
    \/ type_token
    \/ extract_amount_call
    \/ extract_date_call

SpecPatterns == Init /\ [][NextPatterns]_vars

(***************************************************************************)
(* FirecrawlWrapper (src/utils/firecrawl_wrapper.py) and the scrape cycle  *)
(* that stores what it returns.  A step is the start of scrape_all_sources,*)
(* one iteration of its loop over the sources, or the storing of the       *)
(* result by _process_and_store_tenders.                                   *)
(***************************************************************************)
\* config.py l.19-41: the names of the configured sources, in order
TENDER_SOURCES ==
    <<"Tamil Nadu Tenders", "Maharashtra Tenders",
      "Central Public Procurement Portal", "Government e-Marketplace">>

\* The sources a run visits: the first NumSources of TENDER_SOURCES.
Sources == SubSeq(TENDER_SOURCES, 1, Min2(NumSources, Len(TENDER_SOURCES)))

\* source['name'].lower().replace(' ', '-'), l.63, of the configured names
NormalizedName(name) ==
    CASE name = "Tamil Nadu Tenders" -> "tamil-nadu-tenders"
      [] name = "Maharashtra Tenders" -> "maharashtra-tenders"
      [] name = "Central Public Procurement Portal"
           -> "central-public-procurement-portal"
      [] name = "Government e-Marketplace" -> "government-e-marketplace"

\* l.63: f"{normalized name}-{int(time.time())}-{index}"
TenderId(name, timestamp, position) ==
    NormalizedName(name) \o "-" \o ToString(timestamp)
                         \o "-" \o ToString(position)

\* What the extraction of one element comes to: a title and a description
\* that are each empty or not, or an exception (of _generic_extract or of the
\* TenderSchema constructor).
ElementKinds ==
    {"both", "title_only", "description_only", "neither", "raises"}

\* _extract_tender_data(element, source), l.55, l.89-144
extract_tender_data(kind) ==
    [raised |-> kind = "raises",
     title |-> IF kind \in {"both", "title_only"}
               THEN "road works" ELSE "",
     description |-> IF kind \in {"both", "description_only"}
                     THEN "resurfacing of the ring road" ELSE ""]

\* A filter that keeps every record.
KeepRecord_Always(tender_data) == TRUE

\* A filter that keeps a record with a title or a description.
KeepRecord_EitherField(tender_data) ==
    tender_data.title # "" \/ tender_data.description # ""

\* l.58: `continue` unless title and description are both non-empty
KeepRecord(tender_data) ==
    tender_data.title # "" /\ tender_data.description # ""

\* A page: whether requests.get / soup.select fail (l.46-50), and the
\* elements selected, each with the seconds the clock moved before it was
\* handled.
Elements == [kind : ElementKinds, tick : {0, 1}]

\* The pages of at most `most` elements.
Pages(most) ==
    {[fetch |-> "fails", elements |-> <<>>]}
    \cup {[fetch |-> "ok", elements |-> e] :
            e \in UNION {[1..n -> Elements] : n \in 0..most}}

\* The time at which element i of a page is handled, from the time `now` at
\* which the page was fetched.
RECURSIVE StampOf(_, _, _)
StampOf(elements, i, now) ==
    IF i = 0 THEN now
    ELSE StampOf(elements, i - 1, now) + elements[i].tick

\* The loop of _scrape_source, l.52-81, over the first n elements: the
\* tenders appended to scraped_tenders.  An element that raises or that the
\* filter rejects is skipped; `position` is enumerate's index, from 0.
RECURSIVE ScrapedTenders(_, _, _, _)
ScrapedTenders(name, elements, n, now) ==
    IF n = 0 THEN <<>>
    ELSE LET tender_data == extract_tender_data(elements[n].kind)
             earlier == ScrapedTenders(name, elements, n - 1, now)
         IN  IF tender_data.raised \/ ~KeepRecord(tender_data)
             THEN earlier
             ELSE Append(earlier,
                      [id |-> TenderId(name, StampOf(elements, n, now),
                                       n - 1),
                       title |-> tender_data.title,
                       description |-> tender_data.description,
                       source |-> name,
                       embedding |-> None])

\* _scrape_source, l.40-87: it never raises; a failed fetch gives [].
\* tender_elements[:20] at l.52.
scrape_source(name, page, now) ==
    IF page.fetch = "fails" THEN <<>>
    ELSE ScrapedTenders(name, page.elements,
                        Min2(ElementLimit, Len(page.elements)), now)

\* A loop that starts over when a source gave nothing.
Collect_RestartOnEmpty(collected, source_tenders) ==
    IF source_tenders = <<>> THEN <<>> ELSE collected \o source_tenders

\* scrape_all_sources, l.29-30: all_tenders.extend(source_tenders)
Collect(collected, source_tenders) == collected \o source_tenders

\* Ending the pause at once.
SleepSeconds_None == {0}

\* time.sleep(random.uniform(1, 3)), l.33: the whole seconds the clock moves
SleepSeconds == MinSleep..MaxSleep

\* scrape_and_store_tenders l.52-55 entering scrape_all_sources l.22-24
start_scrape ==
    /\ sourceIdx = 0
    /\ clock <= MaxClock
    /\ sourceIdx' = 1
    /\ all_tenders' = <<>>
    /\ served' = <<>>
    /\ UNCHANGED <<loopVars, readerVars, textVars, clock, scoreCall, loaded, profile_call, VECTOR_DIMENSION,
                   tenders, index, tendersFile, indexFile, result, nextId,
                   companyTenders, companyIndex, company_embedding,
                   neighbours, recommendations, embedCall, pc, agents,
                   batches>>

\* scrape_all_sources l.26-35: one iteration of the loop over self.sources
scrape_one_source ==
    /\ sourceIdx \in 1..Len(Sources)
    /\ \E page \in Pages(Min2(MaxElements, MaxTenders - nextId)),
          pause \in SleepSeconds :
         LET name == Sources[sourceIdx]
             source_tenders == scrape_source(name, page, clock)
         IN  /\ nextId' = nextId + Len(page.elements)
             /\ all_tenders' = Collect(all_tenders, source_tenders)
             /\ served' = Append(served,
                    [name |-> name, fetch |-> page.fetch,
                     elements |-> [i \in 1..Len(page.elements) |->
                         [kind |-> page.elements[i].kind,
                          stamp |-> StampOf(page.elements, i, clock)]]])
             /\ clock' = StampOf(page.elements, Len(page.elements), clock)
                           + pause
    /\ sourceIdx' = sourceIdx + 1
    /\ UNCHANGED <<loopVars, readerVars, textVars, scoreCall, loaded, profile_call, VECTOR_DIMENSION,
                   tenders, index, tendersFile, indexFile, result,
                   companyTenders, companyIndex, company_embedding,
                   neighbours, recommendations, embedCall, pc, agents,
                   batches>>

\* An embedding answer of the configured length.
GoodResponse == CHOOSE r \in GoodResponses : TRUE

\* scrape_and_store_tenders l.56-65: _process_and_store_tenders on what
\* scrape_all_sources returned, with the embedding service and the disk
\* working.
store_scraped ==
    /\ sourceIdx = Len(Sources) + 1
    /\ LET out == process_and_store_tenders(tenders, index, tendersFile,
                      indexFile, all_tenders,
                      [i \in 1..Len(all_tenders) |-> GoodResponse],
                      VECTOR_DIMENSION, FALSE, "ok", "ok")
       IN  /\ tenders' = out.tenders
           /\ index' = out.index
           /\ tendersFile' = out.tendersFile
           /\ indexFile' = out.indexFile
           /\ result' = scrape_result(out.raised, Len(all_tenders))
           /\ loaded' = [tenders |-> load_tenders(tenders, tendersFile),
                         index |-> load_index(index, indexFile)]
    /\ sourceIdx' = 0
    /\ UNCHANGED <<loopVars, readerVars, textVars, clock, all_tenders, served, scoreCall, profile_call,
                   VECTOR_DIMENSION, nextId, companyTenders, companyIndex,
                   company_embedding, neighbours, recommendations, embedCall,
                   pc, agents, batches>>

NextScrape ==
    \/ start_scrape
    \/ scrape_one_source
    \/ store_scraped

SpecScrape == Init /\ [][NextScrape]_vars

(***************************************************************************)
(* _extract_tender_data on one element                                     *)
(*                                                                         *)
(* An element is known by which of the four nodes the source's selectors   *)
(* look for it holds, by its first link (none, one without href, a plain   *)
(* one, one of class card-link), by its first heading (none, or one with a *)
(* text), and by its visible text.  A mapping such as tender_data is a     *)
(* function on the keys it has.                                            *)
(***************************************************************************)
\* The selectors of a source: table cells (l.96-100, l.109-113), h4 and
\* classes (l.119-123), card classes (l.130-134), or none (l.140-142).
SourceStyle(name) ==
    CASE name \in {"Tamil Nadu Tenders", "Maharashtra Tenders"} -> "cells"
      [] name = "Central Public Procurement Portal" -> "heading"
      [] name = "Government e-Marketplace" -> "card"
      [] OTHER -> "generic"

\* The configured sources and one that _extract_tender_data has no branch for
SourceNames ==
    {TENDER_SOURCES[i] : i \in 1..Len(TENDER_SOURCES)} \cup {"Other Portal"}

\* source['url']
SourceUrl(name) == [kind |-> "base", of |-> name]

\* The fields in the order the selectors are applied
NodeFields == <<"title", "description", "amount", "deadline">>

\* A notice longer than the title taken from it
LongNotice == Word("Resurfacing of the ring road", 140, FALSE, FALSE, FALSE)

\* element.get_text()
VisibleTexts ==
    {<<>>, <<SubmitBy, NumericDate>>, <<LongNotice>>,
     <<LongNotice, Rs, Five, Lakhs>>, <<MonthDate, INR, OneMillion>>}

\* The elements a page of the source can hold.  Where the title selector is
\* a heading (h4, h3.card-title), an element with a title node has a heading.
ElementsOf(name) ==
    {e \in [nodes : [{"title", "description", "amount", "deadline"} -> BOOLEAN],
            link : {"none", "no_href", "plain", "card"},
            heading : BOOLEAN,
            text : VisibleTexts] :
        (SourceStyle(name) \in {"heading", "card"} /\ e.nodes["title"])
            => e.heading}

\* The text of the node a selector found, stripped
NodeText(field) == [kind |-> "node", field |-> field]

\* The text of the amount cell
AmountText == <<Rs, Five, Lakhs>>

\* headings[0].text.strip(), l.153
HeadingText == [kind |-> "heading"]

\* link['href']
Href == [kind |-> "href"]

\* source['url'] + href, l.101
Joined(name) == [kind |-> "joined", of |-> name]

\* A mapping with one more key
With(mapping, key, value) ==
    [k \in DOMAIN mapping \cup {key} |->
        IF k = key THEN value ELSE mapping[k]]

\* tender_data = {}, l.91 and l.148: the function on no key
EmptyMapping == [k \in {} |-> None]

\* _generic_extract, l.146-173
generic_extract(element) ==
    LET title == IF element.heading THEN HeadingText
                 ELSE Prefix(element.text, TitleLimit)
        fields == [title |-> title,
                   description |-> Prefix(element.text,
                       TextLength(element.text, Len(element.text))),
                   amount |-> extract_amount(element.text),
                   deadline |-> extract_date(element.text)]
    IN  IF element.link \in {"plain", "card"}                    \* l.169-171
        THEN With(fields, "url", Href)
        ELSE fields

\* The number of node selectors that succeed before the first that finds
\* nothing: .text of None raises AttributeError.
RECURSIVE NodesFound(_, _)
NodesFound(element, n) ==
    IF n = Len(NodeFields) \/ ~element.nodes[NodeFields[n + 1]] THEN n
    ELSE NodesFound(element, n + 1)

\* What the try block has put into tender_data after its first n node
\* selectors.
RECURSIVE Assigned(_, _)
Assigned(element, n) ==
    IF n = 0 THEN EmptyMapping
    ELSE With(Assigned(element, n - 1), NodeFields[n],
              IF NodeFields[n] = "amount" THEN extract_amount(AmountText)
              ELSE NodeText(NodeFields[n]))

\* The url line of the try block, l.101, l.114, l.124, l.135: it raises
\* KeyError when the link found has no href.
specific_url(name, element) ==
    IF SourceStyle(name) = "card"
    THEN IF element.link = "card" THEN Href ELSE SourceUrl(name)
    ELSE CASE element.link = "none" -> SourceUrl(name)
           [] element.link = "no_href" -> [kind |-> "raises"]
           [] OTHER -> Joined(name)

\* A handler that keeps what the try block had assigned.
OnSelectorFailure_KeepAssigned(assigned, generic) ==
    [k \in DOMAIN assigned \cup DOMAIN generic |->
        IF k \in DOMAIN assigned THEN assigned[k] ELSE generic[k]]

\* The except clauses of l.102-104, l.115-116, l.125-126, l.136-137:
\* tender_data is replaced by the generic extraction.
OnSelectorFailure(assigned, generic) == generic

\* _extract_tender_data, l.89-144
extract_tender_fields(element, name) ==
    LET found == NodesFound(element, 0)
        url == specific_url(name, element)
    IN  IF SourceStyle(name) = "generic" THEN generic_extract(element)
        ELSE IF found < Len(NodeFields)
        THEN OnSelectorFailure(Assigned(element, found),
                               generic_extract(element))
        ELSE IF url.kind = "raises"
        THEN OnSelectorFailure(Assigned(element, found),
                               generic_extract(element))
        ELSE With(Assigned(element, found), "url", url)

\* tender_data.get('url', source['url']), l.70
TenderUrl(tender_data, name) ==
    IF "url" \in DOMAIN tender_data THEN tender_data["url"]
    ELSE SourceUrl(name)

\* soup.select(source['selector']) has found an element, l.50-52
select_element ==
    /\ extraction.op = "none"
    /\ \E name \in SourceNames :
       \E element \in ElementsOf(name) :
         extraction' = [op |-> "selected", source |-> name,
                        element |-> element]
    /\ UNCHANGED <<pipelineVars, profile, scan>>

\* _extract_tender_data(element, source) on an element of the source, and
\* the url of the TenderSchema built from what it returns (l.55, l.70)
extract_tender_data_call ==
    /\ extraction.op = "selected"
    /\ LET tender_data == extract_tender_fields(extraction.element,
                                                extraction.source)
       IN  extraction' = [op |-> "extracted", source |-> extraction.source,
                          element |-> extraction.element,
                          returned |-> tender_data,
                          url |-> TenderUrl(tender_data, extraction.source)]
    /\ UNCHANGED <<pipelineVars, profile, scan>>

NextElement ==
    \/ select_element
    \/ extract_tender_data_call

SpecElement == Init /\ [][NextElement]_vars

(***************************************************************************)
(* One scrape cycle, tender by tender, with the raw tender files           *)
(***************************************************************************)
\* tender_dict.pop("embedding", None), l.179
Pop(mapping, key) == [k \in DOMAIN mapping \ {key} |-> mapping[k]]

\* An export after which the tender itself has lost its embedding.
AfterExport_Stripped(tender) == [tender EXCEPT !.embedding = None]

\* The tender after l.177-179: model_dump() builds a new dict, and the pop
\* acts on that dict.
AfterExport(tender) == tender

\* _save_raw_tender, l.171-184: the files of raw_tenders/ and the tender
\* afterwards.  Every exception of the write is caught at l.183, so the
\* call returns whatever the write did.
save_raw_tender(tender, files, outcome) ==
    LET tender_dict == Pop(model_dump(tender, {}), "embedding")
        others == {f \in files : f.id # tender.id}
    IN  [tender |-> AfterExport(tender),
         files |-> CASE outcome = "ok" ->
                          others \cup {[id |-> tender.id, state |-> "ok",
                                        data |-> tender_dict]}
                     [] outcome = "refused" -> files
                     [] outcome = "partial" ->
                          others \cup {[id |-> tender.id, state |-> "corrupt",
                                        data |-> EmptyMapping]}]

\* scrape_and_store_tenders up to the loop: the scrape (l.55) and
\* _load_index_and_tenders (l.77)
cycle_starts ==
    /\ ~loop.active
    /\ \E n \in 0..MaxBatch :
         /\ nextId + n <= MaxTenders
         /\ nextId' = nextId + n
         /\ loop' = [NoLoop EXCEPT !.active = TRUE,
                                   !.scraped = Scraped(nextId, n)]
    /\ tenders' = load_tenders(tenders, tendersFile)
    /\ index' = load_index(index, indexFile)
    /\ loaded' = [tenders |-> tenders', index |-> index']
    /\ UNCHANGED <<rawFiles, readerVars, textVars, scrapeVars, scoreCall,
                   profile_call, VECTOR_DIMENSION, tendersFile, indexFile,
                   result, companyTenders, companyIndex, company_embedding,
                   neighbours, recommendations, embedCall, pc, agents,
                   batches>>

\* One pass of the loop of l.82-97: the embedding is attached, the tender and
\* the embedding are appended, then the raw file is written.
process_tender ==
    /\ loop.active
    /\ loop.pos < Len(loop.scraped)
    /\ \E response \in TenderResponses, outcome \in WriteOutcomes :
         LET tender == [loop.scraped[loop.pos + 1] EXCEPT
                            !.embedding = get_embedding(response,
                                                        VECTOR_DIMENSION)]
             saved == save_raw_tender(tender, rawFiles, outcome)
         IN  /\ loop' = [loop EXCEPT
                            !.pos = loop.pos + 1,
                            !.new_tenders = Append(@, saved.tender),
                            !.embeddings = Append(@, tender.embedding),
                            !.outcomes = Append(@, outcome)]
             /\ rawFiles' = saved.files
    /\ UNCHANGED <<readerVars, textVars, scrapeVars, scoreCall, loaded,
                   profile_call, VECTOR_DIMENSION, tenders, index, tendersFile,
                   indexFile, result, nextId, companyTenders, companyIndex,
                   company_embedding, neighbours, recommendations, embedCall,
                   pc, agents, batches>>

\* l.99-109 and the return of scrape_and_store_tenders, l.61-72
store_batch ==
    /\ loop.active
    /\ loop.pos = Len(loop.scraped)
    /\ loop' = [loop EXCEPT !.active = FALSE]
    /\ IF loop.new_tenders = <<>>
       THEN /\ result' = scrape_result(FALSE, 0)
            /\ UNCHANGED <<tenders, index, tendersFile, indexFile>>
       ELSE \E castRaises \in CastChoices(loop.embeddings) :
              LET upd == update_index(index, loop.embeddings,
                                      VECTOR_DIMENSION, castRaises)
              IN  /\ tenders' = tenders \o loop.new_tenders
                  /\ index' = upd.index
                  /\ result' = scrape_result(upd.raised, Len(loop.scraped))
                  /\ IF ReachesSave(upd.raised)
                     THEN \E indexWrite \in WriteOutcomes,
                             tendersWrite \in WriteOutcomes :
                            /\ indexFile' = save_index(index', indexFile,
                                                       indexWrite)
                            /\ tendersFile' = save_tenders(tenders',
                                                  tendersFile, tendersWrite)
                     ELSE UNCHANGED <<tendersFile, indexFile>>
    /\ UNCHANGED <<rawFiles, readerVars, textVars, scrapeVars, scoreCall,
                   loaded, profile_call, VECTOR_DIMENSION, nextId,
                   companyTenders, companyIndex, company_embedding,
                   neighbours, recommendations, embedCall, pc, agents,
                   batches>>

NextLoop ==
    \/ cycle_starts
    \/ process_tender
    \/ store_batch

SpecLoop == Init /\ [][NextLoop]_vars

(***************************************************************************)
(* Properties                                                              *)
(***************************************************************************)
\* The tenders and rows a file holds for a reader: none unless it is readable.
StoredTenders(file) == IF file.state = "ok" THEN file.data ELSE <<>>

StoredRows(file) == IF file.state = "ok" THEN file.data.vecs ELSE <<>>

\* e is a list of exactly d components.
HasLength(e, d) == e.kind = "list" /\ e.dim = d

\* C1: after every call of scrape_and_store_tenders has returned, whatever the
\* embedding answers and the load, index-update and save failures were, the
\* index holds as many vectors as self.tenders holds tenders (an absent index
\* counting as 0).
C1_IndexSizeEqualsStoreSize == ntotal(index) = Len(tenders)

\* C2: after any sequence of scrape cycles every ordinal of the index is a
\* position of the store, and the row at that ordinal is the embedding
\* attached to the tender at that position.
C2_OrdinalHoldsItsTendersEmbedding ==
    \A i \in 1..ntotal(index) :
        /\ i <= Len(tenders)
        /\ tenders[i].embedding.kind = "list"
        /\ index.vecs[i] = Float32Row(tenders[i].embedding)

\* C3: store and index are append-only: over every scrape cycle, load failure
\* or not, what was held in memory and on disk before the cycle is a prefix of
\* what is held after it.
C3_AppendOnly ==
    [][scrape_and_store_tenders =>
          /\ IsPrefix(tenders, tenders')
          /\ IsPrefix(index.vecs, index'.vecs)
          /\ IsPrefix(StoredTenders(tendersFile), StoredTenders(tendersFile'))
          /\ IsPrefix(StoredRows(indexFile), StoredRows(indexFile'))]_vars

\* C4: once a scrape cycle has run _save_index_and_tenders, a fresh agent that
\* loads the two files holds a store and an index of equal sizes, with the
\* tenders and the rows the saving agent holds, in the same order, so a search
\* gives the same (distance, ordinal) results on either side.
C4_SaveThenLoadRoundTrip ==
    [][(scrape_and_store_tenders
          /\ result'.status = "success" /\ result'.tender_count > 0) =>
          LET ts == company_load_tenders(tendersFile')
              ix == company_load_index(indexFile')
          IN  /\ Len(ts) = ntotal(ix)
              /\ ts = tenders'
              /\ ix = index'
              /\ \A q \in {Zeros(ix.d), List(ix.d, MaxVal)} :
                     SearchResults(ix, q, Min2(top_k_default, ntotal(ix)))
                       = SearchResults(index', q,
                             Min2(top_k_default, ntotal(index')))]_vars

\* C5: two concurrent scrape cycles over the same files do not interleave their
\* load, append and save steps, so once both are over the persisted store and
\* index are aligned and hold every tender either cycle appended.
C5_ConcurrentCyclesLoseNothing ==
    (\A p \in Writers : pc[p] = "done") =>
        /\ Len(StoredTenders(tendersFile)) = Len(StoredRows(indexFile))
        /\ \A p \in Writers : \A i \in 1..Len(batches[p]) :
               \E j \in 1..Len(StoredTenders(tendersFile)) :
                   /\ StoredTenders(tendersFile)[j] = batches[p][i]
                   /\ StoredRows(indexFile)[j]
                        = Float32Row(batches[p][i].embedding)

\* An answer of the embedding service that is a failure: the request raised,
\* the status is not 200, or the body is malformed (not JSON, not an object,
\* no "embedding", or an "embedding" that is no list).
FailedResponse(r) ==
    \/ r.raised
    \/ r.status_code # 200
    \/ r.body.json # "object"
    \/ r.body.embedding.kind # "list"

\* C6: in both agents get_embedding answers every failure (non-200, network
\* exception, malformed response) with the all-zero vector of the configured
\* dimension VECTOR_DIMENSION.
C6_FailureGivesZeroVectorOfD ==
    (embedCall.agent # "none" /\ FailedResponse(embedCall.response)) =>
        embedCall.returned = Zeros(VECTOR_DIMENSION)

\* C7: every embedding the client hands on to be indexed has exactly
\* VECTOR_DIMENSION components, whatever the embedding service returned.
C7_EveryEmbeddingHasDimensionD ==
    \A i \in 1..Len(tenders) :
        HasLength(tenders[i].embedding, VECTOR_DIMENSION)

\* C8: a scrape cycle in which some new embedding is not a list of D
\* components ends with status "error", and no cycle leaves a row of another
\* length than D in the index.
C8_DimensionMismatchIsHardError ==
    [][scrape_and_store_tenders =>
          /\ (\E i \in 1..Len(tenders') :
                  /\ tenders'[i].id > nextId
                  /\ ~HasLength(tenders'[i].embedding, VECTOR_DIMENSION))
               => result'.status = "error"
          /\ \A i \in 1..ntotal(index') :
                 index'.vecs[i].dim = VECTOR_DIMENSION]_vars

\* C8 witness: a cycle has ended in error with a tender whose embedding has
\* another length than D, and every row of the index has length D.
C8_Witness ==
    /\ result.status = "error"
    /\ \E i \in 1..Len(tenders) :
           tenders[i].embedding.kind = "list"
           /\ tenders[i].embedding.dim # VECTOR_DIMENSION
    /\ ntotal(index) > 0
    /\ \A i \in 1..ntotal(index) : index.vecs[i].dim = VECTOR_DIMENSION

\* C9 as claimed: when scoring raises, _find_matching_tenders returns the
\* recommendations built for the earlier neighbours.
C9_PartialResultsOnScoringError ==
    (neighbours.searched /\ neighbours.raisedAt > 0) =>
        LET built == Built(companyTenders, neighbours.pairs,
                           neighbours.raisedAt - 1)
        IN  /\ Len(recommendations) = Len(built)
            /\ \A i \in 1..Len(built) :
                   \E j \in 1..Len(recommendations) :
                       recommendations[j] = built[i]

\* C9 amended: when scoring raises, _find_matching_tenders returns the empty
\* list, whatever had been built for the earlier neighbours.
C9_EmptyOnScoringError ==
    (neighbours.searched /\ neighbours.raisedAt > 0) => recommendations = <<>>

\* C9 witness: scoring raised after a recommendation had been built, and the
\* list returned is empty.
C9_Witness ==
    /\ neighbours.searched
    /\ neighbours.raisedAt > 1
    /\ Built(companyTenders, neighbours.pairs, neighbours.raisedAt - 1) # <<>>
    /\ recommendations = <<>>

\* The neighbours whose ordinal is a position of the store.
ValidNeighbours ==
    {j \in 1..Len(neighbours.pairs) :
        /\ neighbours.pairs[j].ordinal >= 0
        /\ neighbours.pairs[j].ordinal < Len(companyTenders)}

\* C10: every recommendation returned for a search result (distance, ordinal)
\* carries the id, the title and the record of self.tenders[ordinal], and there
\* is one recommendation per neighbour with a valid ordinal and none for any
\* other.
C10_RecommendationComesFromItsOrdinal ==
    (neighbours.searched /\ neighbours.raisedAt = 0) =>
        /\ Len(recommendations) = Cardinality(ValidNeighbours)
        /\ \A j \in ValidNeighbours :
               LET tender == companyTenders[neighbours.pairs[j].ordinal + 1]
               IN  \E i \in 1..Len(recommendations) :
                     /\ recommendations[i].tender_id = tender.id
                     /\ recommendations[i].tender_title = tender.title
                     /\ recommendations[i].tender_details = tender
                     /\ recommendations[i].similarity_score =
                            similarity_score(neighbours.pairs[j].distance)

\* C10 witness: a search returned an ordinal past the end of the store beside
\* valid ones, and recommendations were returned.
C10_Witness ==
    /\ neighbours.searched
    /\ neighbours.raisedAt = 0
    /\ recommendations # <<>>
    /\ \E j \in 1..Len(neighbours.pairs) : j \notin ValidNeighbours

\* C11: matching with the index absent, with an index of zero vectors or with
\* an empty store returns an empty list, does not raise and never reaches the
\* index query.
C11_NothingToMatchGivesEmptyList ==
    (neighbours.called
       /\ (\/ ~companyIndex.present
           \/ ntotal(companyIndex) = 0
           \/ companyTenders = <<>>)) =>
        /\ recommendations = <<>>
        /\ ~neighbours.queried
        /\ ~profile_call.escaped
        /\ profile_call.returned.status = "success"
        /\ profile_call.returned.recommendations = <<>>

\* C11 witness: a profile was matched by an agent whose store is empty while
\* its index holds vectors, and nothing was returned.
C11_Witness ==
    /\ neighbours.called
    /\ companyTenders = <<>>
    /\ ntotal(companyIndex) > 0
    /\ recommendations = <<>>

\* The neighbour a returned recommendation was built for.
NeighbourOf(r) ==
    CHOOSE k \in ValidNeighbours :
        /\ companyTenders[neighbours.pairs[k].ordinal + 1] = r.tender_details
        /\ similarity_score(neighbours.pairs[k].distance) = r.similarity_score

\* C12: the list _find_matching_tenders returns is in non-increasing order of
\* similarity_score, and recommendations of equal score are in the order in
\* which the search returned their neighbours.
C12_SortedByScoreKeepingSearchOrder ==
    (neighbours.searched /\ neighbours.raisedAt = 0) =>
        \A i, j \in 1..Len(recommendations) : i < j =>
            /\ recommendations[i].similarity_score
                 >= recommendations[j].similarity_score
            /\ recommendations[i].similarity_score
                 = recommendations[j].similarity_score
               => NeighbourOf(recommendations[i])
                    < NeighbourOf(recommendations[j])

\* C12 witness: two recommendations of equal score were returned.
C12_Witness ==
    /\ neighbours.searched
    /\ neighbours.raisedAt = 0
    /\ Len(recommendations) >= 2
    /\ recommendations[1].similarity_score
         = recommendations[2].similarity_score

\* C13: for every distance d >= 0 the score is clamp(0, 100, (1 - d/10) * 100):
\* within 0..100, 100 at d = 0, 0 at d = 10 and beyond, and not larger than
\* the score of any smaller distance.
C13_ScoreIsClampedAndNonIncreasing ==
    LET d == scoreCall.distance
        score == scoreCall.score
    IN  /\ score \in 0..100
        /\ score = (IF d >= 10 THEN 0 ELSE 100 - 10 * d)
        /\ (d = 0 => score = 100)
        /\ (d >= 10 => score = 0)
        /\ (scoreCall.previous <= d => scoreCall.previous_score >= score)
        /\ (scoreCall.previous >= d => scoreCall.previous_score <= score)

\* C13 witness: the distance 20 was scored 0 after the distance 0 was
\* scored 100.
C13_Witness ==
    /\ scoreCall.distance = 20
    /\ scoreCall.score = 0
    /\ scoreCall.previous = 0
    /\ scoreCall.previous_score = 100

\* C14: no recommendation record returned by process_company_profile holds
\* the tender's embedding: tender_details has the tender's fields without
\* "embedding".
C14_RecommendationsCarryNoEmbedding ==
    (~profile_call.escaped /\ profile_call.returned.status = "success") =>
        \A i \in 1..Len(profile_call.returned.recommendations) :
            LET rec == profile_call.returned.recommendations[i]
            IN  /\ "embedding" \notin DOMAIN rec.tender_details
                /\ \A f \in (DOMAIN recommendations[i].tender_details)
                               \ {"embedding"} :
                       /\ f \in DOMAIN rec.tender_details
                       /\ rec.tender_details[f]
                            = recommendations[i].tender_details[f]

\* C15: the ids of the tenders in the store are pairwise distinct after any
\* sequence of scrape cycles, each id being the normalized source name, the
\* second of ingestion and the position in the source's batch, joined by "-".
C15_TenderIdsAreDistinct ==
    /\ \A i, j \in 1..Len(tenders) :
           i # j => tenders[i].id # tenders[j].id
    /\ \A i \in 1..Len(tenders) :
           \E t \in 0..clock, position \in 0..(MaxElements - 1) :
               tenders[i].id =
                   NormalizedName(tenders[i].source) \o "-" \o ToString(t)
                       \o "-" \o ToString(position)

\* C15 witness: two cycles have each stored the element at the same position
\* of the same source.
C15_Witness ==
    /\ sourceIdx = 0
    /\ \E i, j \in 1..Len(tenders) :
           /\ i < j
           /\ tenders[i].source = tenders[j].source
           /\ \E t, u \in 0..clock :
                  /\ tenders[i].id = TenderId(tenders[i].source, t, 0)
                  /\ tenders[j].id = TenderId(tenders[j].source, u, 0)

\* Whether the element at position i of what source k served is among the
\* tenders collected.
Collected(k, i) ==
    \E n \in 1..Len(all_tenders) :
        all_tenders[n].id =
            TenderId(served[k].name, served[k].elements[i].stamp, i - 1)

\* C16 as claimed: a record with exactly one of title and description is kept
\* and reaches the result of _scrape_source; only one with neither is dropped.
C16_KeptWithTitleOrDescription ==
    \A k \in 1..Len(served) : \A i \in 1..Len(served[k].elements) :
        served[k].elements[i].kind \in {"title_only", "description_only"}
            => Collected(k, i)

\* C16 amended: a record is kept exactly when its title and its description
\* are both non-empty; one with only a title or only a description is
\* dropped like one with neither.
C16_KeptOnlyWithTitleAndDescription ==
    \A k \in 1..Len(served) : \A i \in 1..Len(served[k].elements) :
        Collected(k, i) <=> served[k].elements[i].kind = "both"

\* C16 witness: a source served a record with a title only beside a complete
\* one, and the complete one alone was collected.
C16_Witness ==
    \E k \in 1..Len(served) : \E i, j \in 1..Len(served[k].elements) :
        /\ served[k].elements[i].kind = "title_only"
        /\ served[k].elements[j].kind = "both"
        /\ ~Collected(k, i)
        /\ Collected(k, j)

\* C17: no tender whose title and description are both empty is ever in the
\* store, in memory or on disk.
C17_NoTenderWithoutTitleAndDescription ==
    /\ \A i \in 1..Len(tenders) :
           ~(tenders[i].title = "" /\ tenders[i].description = "")
    /\ \A i \in 1..Len(StoredTenders(tendersFile)) :
           ~(StoredTenders(tendersFile)[i].title = ""
               /\ StoredTenders(tendersFile)[i].description = "")

\* C17 witness: a cycle in which a source served an element with neither
\* title nor description has stored its tenders.
C17_Witness ==
    /\ sourceIdx = 0
    /\ result.status = "success"
    /\ tenders # <<>>
    /\ \E k \in 1..Len(served) : \E i \in 1..Len(served[k].elements) :
           served[k].elements[i].kind = "neither"

\* The tenders successfully scraped from what one source served: none when
\* the fetch failed, else one per complete element, in page order.
SuccessfullyScraped(entry) ==
    LET complete == SelectSeq([i \in 1..Len(entry.elements) |-> i],
                        LAMBDA i : entry.elements[i].kind = "both")
    IN  IF entry.fetch = "fails" THEN <<>>
        ELSE [n \in 1..Len(complete) |->
                 [id |-> TenderId(entry.name,
                                  entry.elements[complete[n]].stamp,
                                  complete[n] - 1),
                  title |-> extract_tender_data("both").title,
                  description |-> extract_tender_data("both").description,
                  source |-> entry.name,
                  embedding |-> None]]

RECURSIVE ConcatScraped(_, _)
ConcatScraped(log, n) ==
    IF n = 0 THEN <<>>
    ELSE ConcatScraped(log, n - 1) \o SuccessfullyScraped(log[n])

\* A step that is one iteration of the loop of scrape_all_sources, and one
\* that stores what the loop returned.
IterationDone == sourceIdx \in 1..Len(Sources) /\ sourceIdx' # sourceIdx

ScrapeStored == sourceIdx = Len(Sources) + 1 /\ sourceIdx' = 0

\* C18: whatever sources fail, scrape_all_sources goes through every source
\* in configured order; each iteration appends what that source gave to what
\* was collected before, removing nothing, and the result is the
\* concatenation in source order of the tenders scraped from each source.
C18_PerSourceIsolation ==
    [][/\ IterationDone =>
            /\ all_tenders' =
                 all_tenders \o SuccessfullyScraped(served'[Len(served')])
            /\ served'[Len(served')].name = Sources[sourceIdx]
            /\ sourceIdx' = sourceIdx + 1
       /\ ScrapeStored =>
            /\ Len(served) = Len(Sources)
            /\ \A k \in 1..Len(Sources) : served[k].name = Sources[k]
            /\ all_tenders = ConcatScraped(served, Len(served))
            /\ result'.tender_count = Len(all_tenders)]_vars

\* C18 witness: the fetch of a source failed after an earlier source had
\* given tenders, and those tenders were returned and stored.
C18_Witness ==
    /\ sourceIdx = 0
    /\ Len(served) = Len(Sources)
    /\ \E k, m \in 1..Len(served) :
           /\ k < m
           /\ SuccessfullyScraped(served[k]) # <<>>
           /\ served[m].fetch = "fails"
    /\ all_tenders # <<>>
    /\ tenders # <<>>

(***************************************************************************)
(* C19  The two pipeline operations hand back a mapping, whatever happens  *)
(***************************************************************************)
\* C19: scrape_and_store_tenders and process_company_profile never let an
\* exception escape.  Each call returns a mapping with status "success" or
\* "error"; a mapping with status "error" carries a non-empty message; and a
\* call with neither a profile text nor a usable file, with a docx file, or
\* with a txt file that is no UTF-8 text returns status "error".
C19_OperationsReturnAMapping ==
    /\ result.status \in {"none", "success", "error"}
    /\ result.status = "error" =>
           /\ "message" \in DOMAIN result
           /\ result.message # ""
    /\ ~profile_call.escaped
    /\ profile_call.returned.status # "none" =>
          LET input == profile_call.input
              returned == profile_call.returned
              noFile == input.file_content = "none" \/ input.file_type = "none"
          IN  /\ returned.status \in {"success", "error"}
              /\ returned.status = "error" =>
                     /\ "message" \in DOMAIN returned
                     /\ returned.message # ""
              /\ (noFile /\ input.profile_text = "none") =>
                     returned.status = "error"
              /\ (~noFile /\ input.file_type = "docx") =>
                     returned.status = "error"
              /\ (~noFile /\ input.file_type = "txt"
                         /\ input.file_content = "binary") =>
                     returned.status = "error"

\* A scrape cycle has ended in an error mapping, and after it a profile call
\* given a docx file has returned one too.
C19_Witness ==
    /\ result.status = "error"
    /\ ~profile_call.escaped
    /\ profile_call.returned.status = "error"
    /\ profile_call.input.file_content # "none"
    /\ profile_call.input.file_type = "docx"

(***************************************************************************)
(* C20  Loading a missing or unreadable file starts from empty             *)
(***************************************************************************)
\* A step of Spec that is a call of scrape_and_store_tenders:
\* TenderScraperAgent.__init__ leaves all of these as they are.
CycleRan ==
    \/ loaded' # loaded
    \/ result' # result
    \/ nextId' # nextId
    \/ tendersFile' # tendersFile
    \/ indexFile' # indexFile

\* C20: _load_index_and_tenders of TenderScraperAgent, whatever the agent
\* held before: when tenders.pkl is missing or unreadable, self.tenders is the
\* empty list after the load; when faiss_index.bin is missing or unreadable,
\* self.index is None after the load.
C20_MissingOrCorruptLoadsEmpty ==
    [][CycleRan =>
          /\ tendersFile.state # "ok" => loaded'.tenders = <<>>
          /\ indexFile.state # "ok" => loaded'.index = NoIndex]_vars

(***************************************************************************)
(* C21  The structured extraction falls back to the heuristic extractor    *)
(***************************************************************************)
\* The service answered 200 with a JSON body whose "response" holds a JSON
\* object from which a valid CompanySchema can be built.
ServiceGivesCompany(reply) ==
    /\ ~reply.raised
    /\ reply.status_code = 200
    /\ reply.json = "object"
    /\ reply.response.payload.kind = "object"
    /\ reply.response.payload.name \in {"absent", "text"}
    /\ reply.response.payload.services \in {"absent", "list"}

\* C21: whenever the extraction service fails (request exception, status
\* other than 200) or its answer holds no JSON object that builds a valid
\* CompanySchema, _extract_company_info returns exactly what
\* _basic_company_extraction returns for the same text.
C21_FallsBackToHeuristicExtractor ==
    (profile.op = "llm" /\ ~ServiceGivesCompany(profile.reply)) =>
        profile.returned = basic_company_extraction(profile.text)

\* The service answered 200 with a fenced JSON object whose name is null, for
\* a text of one line, and the heuristic result came back.
C21_Witness ==
    /\ profile.op = "llm"
    /\ profile.text # <<>>
    /\ profile.reply.status_code = 200
    /\ profile.reply.json = "object"
    /\ profile.reply.response.payload.kind = "object"
    /\ profile.reply.response.payload.name = "null"
    /\ profile.returned.name.kind = "line"

(***************************************************************************)
(* C22  The heuristic extractor                                            *)
(***************************************************************************)
\* The lines among the first n that contain one of the words, lower-cased,
\* in text order.
RECURSIVE LinesWith(_, _, _)
LinesWith(lines, words, n) ==
    IF n = 0 THEN <<>>
    ELSE IF lines[n].words \cap words # {}
         THEN Append(LinesWith(lines, words, n - 1), Lower(lines[n]))
         ELSE LinesWith(lines, words, n - 1)

\* The first ListLimit lines that contain one of the words, or the default.
Bucketed(text, words, default) ==
    LET found == LinesWith(text, words, Len(text))
    IN  IF found = <<>> THEN <<GenericEntry(default)>>
        ELSE SubSeq(found, 1, Min2(ListLimit, Len(found)))

\* C22: _basic_company_extraction puts every line containing "service",
\* "provide" or "offer" into services, every line containing "capability"
\* into capabilities and every line containing "expertise" or "specialize"
\* into expertise; each list keeps its first 5 entries in text order and is
\* one generic default entry when it would be empty; name is the first line
\* and description the first 500 characters.
C22_LinesBucketedByKeyword ==
    profile.op = "basic" =>
        /\ profile.returned.services =
               Bucketed(profile.text, {"service", "provide", "offer"},
                        "General services")
        /\ profile.returned.capabilities =
               Bucketed(profile.text, {"capability"}, "General capabilities")
        /\ profile.returned.expertise =
               Bucketed(profile.text, {"expertise", "specialize"},
                        "General expertise")
        /\ profile.returned.name.line = SplitLines(profile.text)[1]
        /\ profile.returned.description.of = profile.text
        /\ profile.returned.description.chars =
               Min2(DescriptionLimit,
                    TextLength(profile.text, Len(profile.text)))

(***************************************************************************)
(* C24  _extract_amount                                                    *)
(***************************************************************************)
\* The literals a pattern can match in the text, in tenths: one that follows
\* a currency marker, or one that a magnitude word follows.
MatchedLiterals(text) ==
    {text[i + 1].lead.tenths : i \in {j \in 1..Len(text) : MarkerPattern(text, j)}}
        \cup {text[i].trail.tenths : i \in {j \in 1..Len(text) : UnitPattern(text, j)}}

DatesAt(text, shapes) == {i \in 1..Len(text) : text[i].kind \in shapes}

\* The date at the least of the positions, as it stands in the text.
FirstDate(text, positions) ==
    [kind |-> "str",
     s |-> text[CHOOSE i \in positions : \A j \in positions : i <= j].s]

\* C25 as stated: _extract_date returns, verbatim and unvalidated, the first
\* substring of the text that has one of the two date shapes, and nothing
\* when the text has neither; "Submit by 15/08/2024" gives "15/08/2024" and
\* "Deadline: 5 Jan 2025" gives "5 Jan 2025".
C25_FirstDateOfEitherShape ==
    scan.op = "date" =>
        LET dates == DatesAt(scan.text, {"numeric_date", "month_date"})
        IN  /\ dates = {} => scan.returned = None
            /\ dates # {} => scan.returned = FirstDate(scan.text, dates)
            /\ scan.text = <<SubmitBy, NumericDate>> =>
                   scan.returned = [kind |-> "str", s |-> "15/08/2024"]
            /\ scan.text = <<DeadlineColon, MonthDate>> =>
                   scan.returned = [kind |-> "str", s |-> "5 Jan 2025"]

\* C25: _extract_date returns, verbatim and unvalidated, the first numeric
\* date (D/M/Y or D-M-Y) of the text when the text holds one anywhere,
\* otherwise the first date with a month name, and nothing when the text has
\* neither; "Submit by 15/08/2024" gives "15/08/2024" and
\* "Deadline: 5 Jan 2025" gives "5 Jan 2025".
C25_FirstNumericDateElseFirstMonthDate ==
    scan.op = "date" =>
        LET numeric == DatesAt(scan.text, {"numeric_date"})
            month == DatesAt(scan.text, {"month_date"})
        IN  /\ numeric # {} => scan.returned = FirstDate(scan.text, numeric)
            /\ (numeric = {} /\ month # {}) =>
                   scan.returned = FirstDate(scan.text, month)
            /\ (numeric = {} /\ month = {}) => scan.returned = None
            /\ scan.text = <<SubmitBy, NumericDate>> =>
                   scan.returned = [kind |-> "str", s |-> "15/08/2024"]
            /\ scan.text = <<DeadlineColon, MonthDate>> =>
                   scan.returned = [kind |-> "str", s |-> "5 Jan 2025"]

\* A date has been extracted from a text that holds a date with a month
\* name before a numeric date that no calendar has.
C25_Witness ==
    /\ scan.op = "date"
    /\ scan.text = <<MonthDate, ImpossibleDate>>
    /\ scan.returned = [kind |-> "str", s |-> "31/02/2024"]

(***************************************************************************)
(* C23  A failed source-specific extraction gives the generic extraction   *)
(***************************************************************************)
\* The selectors of the source fail on the element: a node is missing, or
\* the link whose href is read has none.
SelectorsFail(name, element) ==
    /\ SourceStyle(name) # "generic"
    /\ \/ \E field \in DOMAIN element.nodes : ~element.nodes[field]
       \/ SourceStyle(name) # "card" /\ element.link = "no_href"

\* C23: when the source-specific extraction of an element fails,
\* _extract_tender_data returns the generic extraction and nothing of what
\* the selectors had found: title is the text of the first heading, else the
\* first 100 characters of the visible text; description is the whole
\* visible text; amount and deadline are what _extract_amount and
\* _extract_date find in the whole text; and the url of the tender is the
\* href of the first link, else the url of the source.
C23_FailedSelectorsGiveGenericExtraction ==
    (extraction.op = "extracted"
        /\ SelectorsFail(extraction.source, extraction.element)) =>
        LET element == extraction.element
            returned == extraction.returned
            text == element.text
        IN  /\ DOMAIN returned \subseteq
                   {"title", "description", "amount", "deadline", "url"}
            /\ returned["title"] =
                   IF element.heading THEN HeadingText
                   ELSE [of |-> text,
                         chars |-> Min2(TitleLimit,
                                        TextLength(text, Len(text)))]
            /\ returned["description"] =
                   [of |-> text, chars |-> TextLength(text, Len(text))]
            /\ returned["amount"] = extract_amount(text)
            /\ returned["deadline"] = extract_date(text)
            /\ extraction.url =
                   IF element.link \in {"plain", "card"} THEN Href
                   ELSE SourceUrl(extraction.source)

\* A table row with a title cell and no description cell, no heading and no
\* link, whose text is longer than 100 characters and names an amount: the
\* title returned is the first 100 characters and the url the source's.
C23_Witness ==
    /\ extraction.op = "extracted"
    /\ extraction.source = "Tamil Nadu Tenders"
    /\ extraction.element.nodes["title"]
    /\ ~extraction.element.nodes["description"]
    /\ ~extraction.element.heading
    /\ extraction.element.link = "none"
    /\ extraction.element.text = <<LongNotice, Rs, Five, Lakhs>>
    /\ extraction.returned["title"].chars = TitleLimit
    /\ extraction.returned["amount"] # None
    /\ extraction.url = SourceUrl("Tamil Nadu Tenders")

(***************************************************************************)
(* C26  A reader beside one writer                                         *)
(***************************************************************************)
\* C26: with one writer (index file written before the store file, good
\* embeddings, writes that succeed) and a CompanyScraperAgent loading beside
\* it (store file read before the index file), the reader never holds more
\* tenders than index vectors once it has loaded, and every recommendation
\* it builds for ordinal i carries the tender at ordinal i, whose embedding
\* is the vector at ordinal i.
C26_ReaderNeverHoldsMoreTendersThanVectors ==
    /\ rpc = "loaded" => Len(companyTenders) <= ntotal(companyIndex)
    /\ (rpc = "loaded" /\ neighbours.searched /\ neighbours.raisedAt = 0) =>
           /\ Len(recommendations) = Cardinality(ValidNeighbours)
           /\ \A j \in ValidNeighbours :
                  LET ordinal == neighbours.pairs[j].ordinal
                      tender == companyTenders[ordinal + 1]
                  IN  /\ Float32Row(tender.embedding)
                           = companyIndex.vecs[ordinal + 1]
                      /\ \E i \in 1..Len(recommendations) :
                             recommendations[i].tender_details = tender

\* The reader read the store before a cycle saved and the index after it: it
\* holds fewer tenders than vectors, and has built a recommendation.
C26_Witness ==
    /\ rpc = "loaded"
    /\ Len(companyTenders) < ntotal(companyIndex)
    /\ companyTenders # <<>>
    /\ neighbours.searched
    /\ recommendations # <<>>

(***************************************************************************)
(* C27  The files are written only after a non-empty batch was appended    *)
(***************************************************************************)
\* C27: a scrape cycle that scrapes no tender, and one that returns status
\* "error", leave tenders.pkl and faiss_index.bin as they were; a cycle that
\* changes either file has returned "success" after appending its batch,
\* which is not empty, to the store and to the index it held after loading.
C27_FilesWrittenOnlyAfterAppend ==
    [][CycleRan =>
          LET batch == nextId' - nextId
              written == tendersFile' # tendersFile \/ indexFile' # indexFile
          IN  /\ batch = 0 => ~written
              /\ result'.status = "error" => ~written
              /\ written =>
                    /\ batch > 0
                    /\ result'.status = "success"
                    /\ Len(tenders') = Len(loaded'.tenders) + batch
                    /\ ntotal(index') = ntotal(loaded'.index) + batch]_vars

\* A cycle has ended in an error after an earlier one had saved: the store in
\* memory has grown past the one on disk, which is as the earlier cycle left
\* it.
C27_Witness ==
    /\ result.status = "error"
    /\ tendersFile.state = "ok"
    /\ indexFile.state = "ok"
    /\ Len(tenders) > Len(StoredTenders(tendersFile))
    /\ Len(StoredTenders(tendersFile)) > 0

(***************************************************************************)
(* C28  A raw tender file that cannot be written                           *)
(***************************************************************************)
\* C28: when the write of a tender's raw file fails, the cycle goes on as
\* if it had not: every tender of the batch is processed, the tender is
\* appended to the store at its place with the embedding get_embedding gave
\* it, and, in a cycle that returns "success", the row of that embedding is
\* appended to the index at the same place.
C28_RawWriteFailureIsAbsorbed ==
    (~loop.active /\ loop.outcomes # <<>>) =>
        \A i \in 1..Len(loop.scraped) :
            loop.outcomes[i] # "ok" =>
                /\ Len(loop.new_tenders) = Len(loop.scraped)
                /\ Len(tenders) = Len(loaded.tenders) + Len(loop.scraped)
                /\ tenders[Len(loaded.tenders) + i].id = loop.scraped[i].id
                /\ tenders[Len(loaded.tenders) + i].embedding
                       = loop.embeddings[i]
                /\ result.status = "success" =>
                       /\ ntotal(index) = ntotal(loaded.index)
                                              + Len(loop.scraped)
                       /\ index.vecs[ntotal(loaded.index) + i]
                              = Float32Row(loop.embeddings[i])

\* A batch of two whose first raw file was left half written: both tenders
\* are in the store with their embeddings and the cycle returned "success".
C28_Witness ==
    /\ ~loop.active
    /\ Len(loop.scraped) = 2
    /\ loop.outcomes[1] = "partial"
    /\ result.status = "success"
    /\ Len(tenders) = Len(loaded.tenders) + 2
    /\ tenders[Len(loaded.tenders) + 1].embedding.kind = "list"
    /\ \E f \in rawFiles : f.id = loop.scraped[1].id /\ f.state = "corrupt"

====
